---- MODULE Spec2Model ----
(***************************************************************************)
(* World Athletics points calculator: the event taxonomy                   *)
(* (models/performance.rs), the placement-score lookup                     *)
(* (scoring_logic/placement_score.rs) and the wind / downhill adjustment   *)
(* rules and the score orchestrator (scoring_logic/calculator.rs), and the *)
(* result-score formula with its write-once coefficient table              *)
(* (scoring_logic/coefficients.rs).                                        *)
(*                                                                         *)
(* Rust values are encoded as follows.                                     *)
(*   enum variant           its name as a string, "M100", "SemiFinal"      *)
(*   Event::Family(v)       [family |-> "Family", variant |-> "v"]         *)
(*   Option<T>              None / Some(x)                                 *)
(*   HashMap<K, V>          a function whose DOMAIN is the set of keys     *)
(*   f64                    a fixed-point integer in hundredths: 2.1 m/s   *)
(*                          is 210, -12.6 points is -1260                  *)
(*   Result<T, E>           Ok(x) / Err(e); an error String is a string    *)
(*   fn pointer             the name of the function it points to          *)
(*   OnceCell / OnceLock    None while unset, Some(value) once set         *)
(***************************************************************************)
EXTENDS Integers, Sequences, FiniteSets, TLC

VARIABLES calculator, op, arg, ret, calls, data, COEFFICIENTS, CALCULATOR,
          threads, form

vars ==
    <<calculator, op, arg, ret, calls, data, COEFFICIENTS, CALCULATOR,
      threads, form>>

None == [tag |-> "None"]

Some(x) == [tag |-> "Some", val |-> x]

Ok(x) == [tag |-> "Ok", val |-> x]

Err(e) == [tag |-> "Err", err |-> e]

Range(seq) == {seq[i] : i \in 1..Len(seq)}

(***************************************************************************)
(* Bounds of the explored inputs.                                          *)
(***************************************************************************)
MaxPlace == 2

MaxWind == 300

MaxDrop == 300

\* Result scores are computed for 10.50 up to 10.50 + MaxResultStep / 100.
MaxResultStep == 10

\* The number of threads calling the initialisers and the lookups.
NumThreads == 3

\* Seconds are formatted within MaxTimeStep ten-thousandths of 0, of the
\* minute and of the hour.
MaxTimeStep == 10

(***************************************************************************)
(* The event taxonomy: the five family enums in declaration order (the     *)
(* order strum's EnumIter yields them in).                                 *)
(***************************************************************************)
TrackAndFieldEvent ==
    << "M50", "M55", "M60", "M100", "M200", "M300", "M400", "M500", "M600",
       "M800", "M1000", "M1500", "M2000", "M3000", "M5000", "M10000",
       "M50H", "M55H", "M60H", "M100H", "M110H", "M400H",
       "M2000mSC", "M3000mSC",
       "M4x100m", "M4x200m", "M4x400m", "M4x400mix",
       "LJ", "TJ", "HJ", "PV", "SP", "DT", "HT", "JT",
       "M200mSh", "M300mSh", "M400mSh", "M500mSh", "M600mSh", "M800mSh",
       "M1000mSh", "M1500mSh", "M2000mSh", "M3000mSh", "M5000mSh",
       "MileSh", "M2MilesSh", "M4x200mSh", "M4x400mSh", "M4x400mixSh" >>

CombinedEvent == << "Dec", "Hept", "HeptSh", "PentSh" >>

RoadRunningEvent ==
    << "Road5km", "Road10km", "Road15km", "Road20km", "Road25km", "Road30km",
       "RoadHM", "RoadMarathon", "Road10Miles", "RoadMile" >>

RaceWalkingEvent ==
    << "Road5kmW", "Road10kmW", "Road15kmW", "Road20kmW", "Road30kmW",
       "Road35kmW", "Road50kmW", "M3000mW", "M5000mW", "M15000mW",
       "M20000mW", "M30000mW", "M35000mW", "M50000mW" >>

CrossCountryEvent == << "GenericXC" >>

\* A value of the tagged union Event.
EventOf(family, variant) == [family |-> family, variant |-> variant]

\* The type Event: every value the enum admits.
Event ==
    {EventOf("TrackAndField", v) : v \in Range(TrackAndFieldEvent)}
    \cup {EventOf("CombinedEvents", v) : v \in Range(CombinedEvent)}
    \cup {EventOf("RoadRunning", v) : v \in Range(RoadRunningEvent)}
    \cup {EventOf("RaceWalking", v) : v \in Range(RaceWalkingEvent)}
    \cup {EventOf("CrossCountry", v) : v \in Range(CrossCountryEvent)}

\* iter().map(wrap): the family's variants, in order, wrapped into Event.
Variants(family, enum) == [i \in 1..Len(enum) |-> EventOf(family, enum[i])]

\* Event::all_variants: five loops pushing onto one Vec.
all_variants ==
    Variants("TrackAndField", TrackAndFieldEvent)
    \o Variants("CombinedEvents", CombinedEvent)
    \o Variants("RoadRunning", RoadRunningEvent)
    \o Variants("RaceWalking", RaceWalkingEvent)
    \o Variants("CrossCountry", CrossCountryEvent)

(***************************************************************************)
(* impl fmt::Display for Event: the canonical display string, one match    *)
(* arm per variant.                                                        *)
(***************************************************************************)
TrackAndFieldEvent_fmt ==
    [ M50 |-> "50m", M55 |-> "55m", M60 |-> "60m", M100 |-> "100m",
      M200 |-> "200m", M300 |-> "300m", M400 |-> "400m", M500 |-> "500m",
      M600 |-> "600m", M800 |-> "800m", M1000 |-> "1000m",
      M1500 |-> "1500m", M2000 |-> "2000m", M3000 |-> "3000m",
      M5000 |-> "5000m", M10000 |-> "10000m",
      M50H |-> "50m Hurdle", M55H |-> "55m Hurdle", M60H |-> "60m Hurdle",
      M100H |-> "100m Hurdle", M110H |-> "110m Hurdle",
      M400H |-> "400m Hurdle",
      M2000mSC |-> "2000m SC", M3000mSC |-> "3000m SC",
      M4x100m |-> "4x100m", M4x200m |-> "4x200m", M4x400m |-> "4x400m",
      M4x400mix |-> "4x400mix",
      LJ |-> "Long Jump", TJ |-> "Triple Jump", HJ |-> "High Jump",
      PV |-> "Pole Vault", SP |-> "Shot Put", DT |-> "Discus Throw",
      HT |-> "Hammer Throw", JT |-> "Javelin Throw",
      M200mSh |-> "200m short track", M300mSh |-> "300m short track",
      M400mSh |-> "400m short track", M500mSh |-> "500m short track",
      M600mSh |-> "600m short track", M800mSh |-> "800m short track",
      M1000mSh |-> "1000m short track", M1500mSh |-> "1500m short track",
      M2000mSh |-> "2000m short track", M3000mSh |-> "3000m short track",
      M5000mSh |-> "5000m short track", MileSh |-> "Mile short track",
      M2MilesSh |-> "2 Miles short track",
      M4x200mSh |-> "4x200m short track", M4x400mSh |-> "4x400m short track",
      M4x400mixSh |-> "4x400mix short track" ]

CombinedEvent_fmt ==
    [ Dec |-> "Dec.", HeptSh |-> "Hept. short track",
      PentSh |-> "Pent. short track", Hept |-> "Hept." ]

RoadRunningEvent_fmt ==
    [ Road5km |-> "Road 5 km", Road10km |-> "Road 10 km",
      Road15km |-> "Road 15 km", Road20km |-> "Road 20 km",
      Road25km |-> "Road 25 km", Road30km |-> "Road 30 km",
      RoadHM |-> "Road HM", RoadMarathon |-> "Road Marathon",
      Road10Miles |-> "Road 10 Miles", RoadMile |-> "Road Mile" ]

RaceWalkingEvent_fmt ==
    [ Road5kmW |-> "Road 5km Walk", Road10kmW |-> "Road 10km Walk",
      Road15kmW |-> "Road 15km Walk", Road20kmW |-> "Road 20km Walk",
      Road30kmW |-> "Road 30km Walk", Road35kmW |-> "Road 35km Walk",
      Road50kmW |-> "Road 50km Walk", M3000mW |-> "3000m Walk",
      M5000mW |-> "5000m Walk", M15000mW |-> "15,000m Walk",
      M20000mW |-> "20,000m Walk", M30000mW |-> "30,000m Walk",
      M35000mW |-> "35,000m Walk", M50000mW |-> "50,000m Walk" ]

CrossCountryEvent_fmt == [ GenericXC |-> "GenericXC" ]

\* A plausible slip: the road walks formatted like the road races
\* ("Road 10 km"), so that two events share one display string.
to_string_walks_as_road(event) ==
    CASE event.family = "TrackAndField" -> TrackAndFieldEvent_fmt[event.variant]
      [] event.family = "CombinedEvents" -> CombinedEvent_fmt[event.variant]
      [] event.family = "RoadRunning" -> RoadRunningEvent_fmt[event.variant]
      [] event.family = "RaceWalking" ->
            IF event.variant = "Road10kmW"
            THEN "Road 10 km"
            ELSE RaceWalkingEvent_fmt[event.variant]
      [] event.family = "CrossCountry" -> CrossCountryEvent_fmt[event.variant]

\* Event::to_string (through Display): the outer match on the family, then
\* the family's arm table.
to_string(event) ==
    CASE event.family = "TrackAndField" -> TrackAndFieldEvent_fmt[event.variant]
      [] event.family = "CombinedEvents" -> CombinedEvent_fmt[event.variant]
      [] event.family = "RoadRunning" -> RoadRunningEvent_fmt[event.variant]
      [] event.family = "RaceWalking" -> RaceWalkingEvent_fmt[event.variant]
      [] event.family = "CrossCountry" -> CrossCountryEvent_fmt[event.variant]

\* Event::from_string: all_variants().into_iter().find(..), the first
\* variant in the Vec whose display string equals s, if there is one.
from_string(s) ==
    LET vec == all_variants
        hits == {i \in 1..Len(vec) : to_string(vec[i]) = s}
    IN  IF hits = {}
        THEN None
        ELSE Some(vec[CHOOSE i \in hits : \A j \in hits : i <= j])

\* A plausible slip: the match lists only seven of the eight field events.
performance_type_without_javelin(event) ==
    IF /\ event.family = "TrackAndField"
       /\ event.variant \in {"LJ", "TJ", "HJ", "PV", "SP", "DT", "HT"}
    THEN "Distance"
    ELSE "Time"

\* Event::performance_type.
performance_type(event) ==
    IF /\ event.family = "TrackAndField"
       /\ event.variant \in {"LJ", "TJ", "HJ", "PV", "SP", "DT", "HT", "JT"}
    THEN "Distance"
    ELSE "Time"

\* A plausible slip: Road 25 km left out of the half-marathon arm, so that
\* it falls through to the generic road-running arm.
to_placement_score_event_group_without_25km(event) ==
    LET is(family, variants) ==
            event.family = family /\ event.variant \in variants
    IN  CASE is("TrackAndField", {"M5000", "M3000mSC"}) ->
                "Distance5000m3000mSC"
          [] is("TrackAndField", {"M10000"}) -> "Distance10000m"
          [] is("RoadRunning", {"Road10km"}) -> "Road10km"
          [] is("RoadRunning", {"RoadMarathon"}) -> "RoadMarathon"
          [] is("RoadRunning", {"RoadHM", "Road30km"}) -> "HalfMarathon"
          [] is("RaceWalking", {"M20000mW", "Road20kmW", "Road5kmW",
                                "Road10kmW", "Road15kmW", "M3000mW",
                                "M5000mW", "M15000mW"}) -> "RaceWalking20Km"
          [] is("RaceWalking", {"M35000mW", "Road35kmW"}) -> "RaceWalking35Km"
          [] OTHER ->
                CASE event.family = "RaceWalking" -> "RaceWalking35KmSimilar"
                  [] event.family = "TrackAndField" -> "TrackAndField"
                  [] event.family = "CombinedEvents" -> "CombinedEvent"
                  [] event.family = "RoadRunning" -> "RoadRunning"
                  [] event.family = "CrossCountry" -> "CrossCountry"

\* Event::to_placement_score_event_group: the specific arms first (they are
\* pairwise disjoint), then the per-family catch-all arms.
to_placement_score_event_group(event) ==
    LET is(family, variants) ==
            event.family = family /\ event.variant \in variants
    IN  CASE is("TrackAndField", {"M5000", "M3000mSC"}) ->
                "Distance5000m3000mSC"
          [] is("TrackAndField", {"M10000"}) -> "Distance10000m"
          [] is("RoadRunning", {"Road10km"}) -> "Road10km"
          [] is("RoadRunning", {"RoadMarathon"}) -> "RoadMarathon"
          [] is("RoadRunning", {"RoadHM", "Road30km", "Road25km"}) ->
                "HalfMarathon"
          [] is("RaceWalking", {"M20000mW", "Road20kmW", "Road5kmW",
                                "Road10kmW", "Road15kmW", "M3000mW",
                                "M5000mW", "M15000mW"}) -> "RaceWalking20Km"
          [] is("RaceWalking", {"M35000mW", "Road35kmW"}) -> "RaceWalking35Km"
          [] OTHER ->
                CASE event.family = "RaceWalking" -> "RaceWalking35KmSimilar"
                  [] event.family = "TrackAndField" -> "TrackAndField"
                  [] event.family = "CombinedEvents" -> "CombinedEvent"
                  [] event.family = "RoadRunning" -> "RoadRunning"
                  [] event.family = "CrossCountry" -> "CrossCountry"

(***************************************************************************)
(* Placement scores (scoring_logic/placement_score.rs).                    *)
(***************************************************************************)
CompetitionCategory ==
    << "F", "E", "D", "C", "B", "A", "GL", "GW", "DF", "OW" >>

RoundType == << "Final", "SemiFinal", "Other" >>

PlacementScoreEventGroup ==
    << "TrackAndField", "Distance5000m3000mSC", "Distance10000m", "Road10km",
       "CombinedEvent", "RoadMarathon", "HalfMarathon", "RoadRunning",
       "RaceWalking20Km", "RaceWalking35Km", "RaceWalking35KmSimilar",
       "CrossCountry" >>

\* The fields of struct PlacementScoreData, in declaration order; each holds
\* a HashMap<CompetitionCategory, HashMap<i32, i32>>.
PlacementScoreData ==
    << "track_field_final", "track_field_semi_max9",
       "track_field_semi_10plus", "distance_5000m_3000mSC_final",
       "distance_5000m_3000mSC_semi_max9",
       "distance_5000m_3000mSC_semi_10plus", "distance_10000m_final",
       "road_10km_final", "combined_events", "road_marathon",
       "half_marathon_similar_event", "road_running_event_group",
       "race_walking_20km", "race_walking_35km", "race_walking_30km_50km",
       "cross_country_finals" >>

IndexOf(seq, x) == CHOOSE i \in 1..Len(seq) : seq[i] = x

\* PlacementCalculator::new on the dataset of get_test_json.
TestCalculator ==
    [data |->
      [ track_field_final |->
          [ OW |-> << 375, 330, 300, 270, 250, 230, 215, 200, 130, 120, 110,
                      100, 95, 90, 85, 80 >>,
            DF |-> << 240, 210, 185, 170, 155, 145, 135, 125, 90, 80, 70,
                      60 >>,
            F  |-> << 15, 10, 5 >> ],
        track_field_semi_max9 |->
          [ OW |-> (1 :> 140 @@ 9 :> 130 @@ 10 :> 120 @@ 11 :> 110
                    @@ 12 :> 100 @@ 13 :> 85 @@ 14 :> 80 @@ 15 :> 75
                    @@ 16 :> 70),
            DF |-> (1 :> 95 @@ 9 :> 90 @@ 10 :> 80 @@ 11 :> 70 @@ 12 :> 60) ],
        track_field_semi_10plus |->
          [ DF |-> (1 :> 90 @@ 11 :> 85 @@ 12 :> 60) ],
        distance_5000m_3000mSC_final |-> [ OW |-> << 305, 270, 240 >> ],
        distance_5000m_3000mSC_semi_max9 |-> << >>,
        distance_5000m_3000mSC_semi_10plus |-> << >>,
        distance_10000m_final |-> [ OW |-> << 280, 250, 225 >> ],
        road_10km_final |-> [ OW |-> << 95, 85, 75 >> ],
        combined_events |-> << >>,
        road_marathon |-> << >>,
        half_marathon_similar_event |-> << >>,
        road_running_event_group |-> << >>,
        race_walking_20km |-> << >>,
        race_walking_35km |-> << >>,
        race_walking_30km_50km |-> << >>,
        cross_country_finals |-> << >> ]]

\* A dataset in which every sub-table scores the places first..MaxPlace of
\* the categories cats, no two entries of the whole dataset being equal:
\* the score read tells which sub-table, category and place it came from.
DatasetOf(cats, first) ==
    [data |->
      [t \in Range(PlacementScoreData) |->
        [c \in cats |->
          [p \in first..MaxPlace |->
              1000 * IndexOf(PlacementScoreData, t)
              + 50 * IndexOf(CompetitionCategory, c) + p]]]]

\* Every category scored from place 1 on.
FullCalculator == DatasetOf(Range(CompetitionCategory), 1)

\* Four categories only, and no entry for place 1.
SparseCalculator == DatasetOf({"A", "GL", "DF", "OW"}, 2)

\* The calculators PlacementCalculator::new is explored with.
Calculators == {TestCalculator, FullCalculator, SparseCalculator}

\* HashMap::get(key).copied().
get(map, key) == IF key \in DOMAIN map THEN Some(map[key]) ELSE None

\* A plausible slip: an absent place scored as zero (unwrap_or_default)
\* instead of being reported as absent.
lookup_zero_for_absent_place(table, competition_category, place) ==
    LET by_place == get(table, competition_category)
    IN  IF by_place = None
        THEN None
        ELSE IF place \in DOMAIN by_place.val
             THEN Some(by_place.val[place])
             ELSE Some(0)

\* table.get(&input.competition_category)?.get(place).copied(): the `?`
\* leaves with None when the category is absent.
lookup(table, competition_category, place) ==
    LET by_place == get(table, competition_category)
    IN  IF by_place = None THEN None ELSE get(by_place.val, place)

\* A plausible slip: the round is not looked at, so that every athlete
\* flagged as qualified is scored as place 1.
place_of_any_qualifier(input) ==
    IF input.qualified_to_final THEN 1 ELSE input.place

\* The local `place` of calculate_placement_score: every semifinalist who
\* qualified for the final is scored as place 1.
place_of(input) ==
    IF input.qualified_to_final /\ input.round_type = "SemiFinal"
    THEN 1
    ELSE input.place

\* A plausible slip: the small-final table chosen by `< 9`, so that a final
\* of exactly nine is scored from the large-final table.
calculate_placement_score_below_9(self, input) ==
    LET place == place_of(input)
        event_group == to_placement_score_event_group(input.event)
        at(group, round) ==
            event_group = group /\ input.round_type = round
        score(table) == lookup(table, input.competition_category, place)
    IN  CASE at("TrackAndField", "Final") ->
                score(self.data.track_field_final)
          [] at("TrackAndField", "SemiFinal") ->
                IF input.size_of_final < 9
                THEN score(self.data.track_field_semi_max9)
                ELSE score(self.data.track_field_semi_10plus)
          [] at("Distance5000m3000mSC", "Final") ->
                score(self.data.distance_5000m_3000mSC_final)
          [] at("Distance5000m3000mSC", "SemiFinal") ->
                IF input.size_of_final < 9
                THEN score(self.data.distance_5000m_3000mSC_semi_max9)
                ELSE score(self.data.distance_5000m_3000mSC_semi_10plus)
          [] at("Distance10000m", "Final") ->
                score(self.data.distance_10000m_final)
          [] at("Road10km", "Final") -> score(self.data.road_10km_final)
          [] at("Distance10000m", "SemiFinal") -> None
          [] at("Road10km", "SemiFinal") -> None
          [] at("CombinedEvent", "Final") -> score(self.data.combined_events)
          [] at("RoadMarathon", "Final") -> score(self.data.road_marathon)
          [] at("HalfMarathon", "Final") ->
                score(self.data.half_marathon_similar_event)
          [] at("RoadRunning", "Final") ->
                score(self.data.road_running_event_group)
          [] at("RaceWalking20Km", "Final") ->
                score(self.data.race_walking_20km)
          [] at("RaceWalking35Km", "Final") ->
                score(self.data.race_walking_35km)
          [] at("RaceWalking35KmSimilar", "Final") ->
                score(self.data.race_walking_30km_50km)
          [] at("CrossCountry", "Final") ->
                score(self.data.cross_country_finals)
          [] OTHER ->
                CASE input.round_type = "SemiFinal" -> None
                  [] input.round_type = "Other" -> None

\* A plausible slip: the arm of the 30 km / 50 km walks reads the table of
\* the arm above it.
calculate_placement_score_walks_from_35km(self, input) ==
    LET place == place_of(input)
        event_group == to_placement_score_event_group(input.event)
        at(group, round) ==
            event_group = group /\ input.round_type = round
        score(table) == lookup(table, input.competition_category, place)
    IN  CASE at("TrackAndField", "Final") ->
                score(self.data.track_field_final)
          [] at("TrackAndField", "SemiFinal") ->
                IF input.size_of_final <= 9
                THEN score(self.data.track_field_semi_max9)
                ELSE score(self.data.track_field_semi_10plus)
          [] at("Distance5000m3000mSC", "Final") ->
                score(self.data.distance_5000m_3000mSC_final)
          [] at("Distance5000m3000mSC", "SemiFinal") ->
                IF input.size_of_final <= 9
                THEN score(self.data.distance_5000m_3000mSC_semi_max9)
                ELSE score(self.data.distance_5000m_3000mSC_semi_10plus)
          [] at("Distance10000m", "Final") ->
                score(self.data.distance_10000m_final)
          [] at("Road10km", "Final") -> score(self.data.road_10km_final)
          [] at("Distance10000m", "SemiFinal") -> None
          [] at("Road10km", "SemiFinal") -> None
          [] at("CombinedEvent", "Final") -> score(self.data.combined_events)
          [] at("RoadMarathon", "Final") -> score(self.data.road_marathon)
          [] at("HalfMarathon", "Final") ->
                score(self.data.half_marathon_similar_event)
          [] at("RoadRunning", "Final") ->
                score(self.data.road_running_event_group)
          [] at("RaceWalking20Km", "Final") ->
                score(self.data.race_walking_20km)
          [] at("RaceWalking35Km", "Final") ->
                score(self.data.race_walking_35km)
          [] at("RaceWalking35KmSimilar", "Final") ->
                score(self.data.race_walking_35km)
          [] at("CrossCountry", "Final") ->
                score(self.data.cross_country_finals)
          [] OTHER ->
                CASE input.round_type = "SemiFinal" -> None
                  [] input.round_type = "Other" -> None

\* A plausible slip: a Road 10 km semifinal scored from the final table
\* instead of carrying no placement score.
calculate_placement_score_road_semi(self, input) ==
    LET place == place_of(input)
        event_group == to_placement_score_event_group(input.event)
        at(group, round) ==
            event_group = group /\ input.round_type = round
        score(table) == lookup(table, input.competition_category, place)
    IN  CASE at("TrackAndField", "Final") ->
                score(self.data.track_field_final)
          [] at("TrackAndField", "SemiFinal") ->
                IF input.size_of_final <= 9
                THEN score(self.data.track_field_semi_max9)
                ELSE score(self.data.track_field_semi_10plus)
          [] at("Distance5000m3000mSC", "Final") ->
                score(self.data.distance_5000m_3000mSC_final)
          [] at("Distance5000m3000mSC", "SemiFinal") ->
                IF input.size_of_final <= 9
                THEN score(self.data.distance_5000m_3000mSC_semi_max9)
                ELSE score(self.data.distance_5000m_3000mSC_semi_10plus)
          [] at("Distance10000m", "Final") ->
                score(self.data.distance_10000m_final)
          [] at("Road10km", "Final") -> score(self.data.road_10km_final)
          [] at("Distance10000m", "SemiFinal") -> None
          [] at("Road10km", "SemiFinal") -> score(self.data.road_10km_final)
          [] at("CombinedEvent", "Final") -> score(self.data.combined_events)
          [] at("RoadMarathon", "Final") -> score(self.data.road_marathon)
          [] at("HalfMarathon", "Final") ->
                score(self.data.half_marathon_similar_event)
          [] at("RoadRunning", "Final") ->
                score(self.data.road_running_event_group)
          [] at("RaceWalking20Km", "Final") ->
                score(self.data.race_walking_20km)
          [] at("RaceWalking35Km", "Final") ->
                score(self.data.race_walking_35km)
          [] at("RaceWalking35KmSimilar", "Final") ->
                score(self.data.race_walking_30km_50km)
          [] at("CrossCountry", "Final") ->
                score(self.data.cross_country_finals)
          [] OTHER ->
                CASE input.round_type = "SemiFinal" -> None
                  [] input.round_type = "Other" -> None

\* PlacementCalculator::calculate_placement_score: the match on
\* (event_group, round_type); the arms for SemiFinal of the two groups with
\* semifinal tables choose the table by size_of_final; the two trailing
\* wildcard arms return None.
calculate_placement_score(self, input) ==
    LET place == place_of(input)
        event_group == to_placement_score_event_group(input.event)
        at(group, round) ==
            event_group = group /\ input.round_type = round
        score(table) == lookup(table, input.competition_category, place)
    IN  CASE at("TrackAndField", "Final") ->
                score(self.data.track_field_final)
          [] at("TrackAndField", "SemiFinal") ->
                IF input.size_of_final <= 9
                THEN score(self.data.track_field_semi_max9)
                ELSE score(self.data.track_field_semi_10plus)
          [] at("Distance5000m3000mSC", "Final") ->
                score(self.data.distance_5000m_3000mSC_final)
          [] at("Distance5000m3000mSC", "SemiFinal") ->
                IF input.size_of_final <= 9
                THEN score(self.data.distance_5000m_3000mSC_semi_max9)
                ELSE score(self.data.distance_5000m_3000mSC_semi_10plus)
          [] at("Distance10000m", "Final") ->
                score(self.data.distance_10000m_final)
          [] at("Road10km", "Final") -> score(self.data.road_10km_final)
          [] at("Distance10000m", "SemiFinal") -> None
          [] at("Road10km", "SemiFinal") -> None
          [] at("CombinedEvent", "Final") -> score(self.data.combined_events)
          [] at("RoadMarathon", "Final") -> score(self.data.road_marathon)
          [] at("HalfMarathon", "Final") ->
                score(self.data.half_marathon_similar_event)
          [] at("RoadRunning", "Final") ->
                score(self.data.road_running_event_group)
          [] at("RaceWalking20Km", "Final") ->
                score(self.data.race_walking_20km)
          [] at("RaceWalking35Km", "Final") ->
                score(self.data.race_walking_35km)
          [] at("RaceWalking35KmSimilar", "Final") ->
                score(self.data.race_walking_30km_50km)
          [] at("CrossCountry", "Final") ->
                score(self.data.cross_country_finals)
          [] OTHER ->
                CASE input.round_type = "SemiFinal" -> None
                  [] input.round_type = "Other" -> None

(***************************************************************************)
(* Adjustment rules (scoring_logic/calculator.rs), in hundredths.          *)
(***************************************************************************)
\* The product of two fixed-point numbers.
Mul(x, y) == (x * y) \div 100

\* 6.0 points per m/s of wind.
POINTS_PER_M_S == 600

\* -30.0 points when there is no wind information.
NWI_PENALTY == -3000

\* No deduction up to +2.0 m/s.
TAILWIND_THRESHOLD == 200

\* A plausible slip: the deduction counted from the threshold, not from 0.
calculate_wind_adjustment_from_threshold(wind_speed) ==
    IF wind_speed = None
    THEN NWI_PENALTY
    ELSE LET wind_value == wind_speed.val
         IN  IF wind_value > 0
             THEN IF wind_value > TAILWIND_THRESHOLD
                  THEN -Mul(wind_value - TAILWIND_THRESHOLD, POINTS_PER_M_S)
                  ELSE 0
             ELSE Mul(-wind_value, POINTS_PER_M_S)

\* calculate_wind_adjustment.
calculate_wind_adjustment(wind_speed) ==
    IF wind_speed = None
    THEN NWI_PENALTY
    ELSE LET wind_value == wind_speed.val
         IN  IF wind_value > 0
             THEN IF wind_value > TAILWIND_THRESHOLD
                  THEN -Mul(wind_value, POINTS_PER_M_S)
                  ELSE 0
             ELSE Mul(-wind_value, POINTS_PER_M_S)

\* 6.0 points for a net drop over the allowed 1 m/km.
POINTS_PER_M_KM == 600

\* 0.6 points per further 0.1 m/km.
POINTS_PER_0_1_M_KM == 60

\* No deduction up to 1.0 m/km.
THRESHOLD == 100

\* A plausible slip: the flat base deduction left out.
calculate_downhill_adjustment_without_base(net_downhill) ==
    IF net_downhill = None
    THEN 0
    ELSE LET drop == net_downhill.val
         IN  IF drop <= THRESHOLD
             THEN 0
             ELSE LET excess == drop - THRESHOLD
                      deduction_additional ==
                          Mul(Mul(excess, 1000), POINTS_PER_0_1_M_KM)
                  IN  -deduction_additional

\* calculate_downhill_adjustment.
calculate_downhill_adjustment(net_downhill) ==
    IF net_downhill = None
    THEN 0
    ELSE LET drop == net_downhill.val
         IN  IF drop <= THRESHOLD
             THEN 0
             ELSE LET excess == drop - THRESHOLD
                      deduction_base == POINTS_PER_M_KM
                      deduction_additional ==
                          Mul(Mul(excess, 1000), POINTS_PER_0_1_M_KM)
                  IN  -(deduction_base + deduction_additional)

(***************************************************************************)
(* The result score (scoring_logic/coefficients.rs).  Numbers keep fixed   *)
(* decimal scales: a performance and a returned score are in hundredths,   *)
(* a conversion factor is in millionths, the two shifts and the raw        *)
(* polynomial value are in ten-thousandths.                                *)
(***************************************************************************)
Gender == <<"Men", "Women">>

Gender_fmt == [Men |-> "men", Women |-> "women"]

\* The product x * y of two fixed-point numbers brought back to the scale
\* of x, y being a multiple of 1/d; computed in two parts so that no
\* intermediate value leaves the 32-bit range.
MulDiv(x, y, d) == (x \div d) * y + ((x % d) * y) \div d

\* f64::round: to the nearest integer, halves away from zero.  The argument
\* is in ten-thousandths, the result (a whole number of points) in
\* hundredths.
round(x) ==
    IF x >= 0
        THEN ((x + 5000) \div 10000) * 100
        ELSE 0 - (((0 - x) + 5000) \div 10000) * 100

\* The table of TEST_JSON_DATA, every coefficient rounded to the scale of
\* its column.
TestTable ==
    [ men |-> [ events |->
        ( "100m" :> <<24642212, -8377135, 71193125>> @@
          "LJ" :> <<1931093, 1867313, -4797064>> @@
          "5000m" :> <<2778, -80006, 57604187>> ) ],
      women |-> [ events |->
        ( "100m" :> <<9927426, -4366751, 48020209>> @@
          "HJ" :> <<39557909, 8313656, -6015063>> @@
          "LJ" :> <<1958114, 1936955, -2339899>> ) ] ]

\* A table whose coefficients are multiples of 0.25, on which the
\* polynomial is exact: ties (x.5) on both sides of zero, and an event only
\* one gender has.
QuarterTable ==
    [ men |-> [ events |->
        ( "100m" :> <<500000, 0, 5000>> @@
          "LJ" :> <<500000, 0, -1005000>> @@
          "110m Hurdle" :> <<250000, -27500, 12500>> ) ],
      women |-> [ events |->
        ( "100m" :> <<250000, 2500, -7500>> @@
          "LJ" :> <<750000, -1000000, 2500>> ) ] ]

CoefficientsTable == {TestTable, QuarterTable}

\* impl From<RawCoefficients> for Coefficients
Coefficients_from(raw) ==
    [ conversion_factor |-> raw[1],
      result_shift |-> raw[2],
      point_shift |-> raw[3] ]

\* The lookup falling back on the other gender's map when the requested
\* one has no entry.
get_coefficients_either_gender(self, gender, event_name) ==
    LET gender_map == IF gender = "Men" THEN self.men.events
                                        ELSE self.women.events
        other_map == IF gender = "Men" THEN self.women.events
                                       ELSE self.men.events
    IN  IF event_name \in DOMAIN gender_map
            THEN Some(Coefficients_from(gender_map[event_name]))
            ELSE IF event_name \in DOMAIN other_map
                     THEN Some(Coefficients_from(other_map[event_name]))
                     ELSE None

get_coefficients(self, gender, event_name) ==
    LET gender_map == IF gender = "Men" THEN self.men.events
                                        ELSE self.women.events
    IN  IF event_name \in DOMAIN gender_map
            THEN Some(Coefficients_from(gender_map[event_name]))
            ELSE None

\* conversion_factor * result * result + result_shift * result
\* + point_shift, in ten-thousandths.
raw_points(coefficients, result) ==
    MulDiv(MulDiv(coefficients.conversion_factor, result, 100), result, 10000)
    + MulDiv(coefficients.result_shift, result, 100)
    + coefficients.point_shift

CoefficientsNotFound(gender, event_name) ==
    "Coefficients not found for gender \"" \o Gender_fmt[gender]
        \o "\" and event: " \o event_name

\* The method with f64::floor, which its doc comment names, in place of
\* f64::round.
CoefficientsTable_calculate_result_score_floored(self, result, gender, event_name) ==
    LET coefficients == get_coefficients(self, gender, event_name)
    IN  IF coefficients = None
            THEN Err(CoefficientsNotFound(gender, event_name))
            ELSE Ok((raw_points(coefficients.val, result) \div 10000) * 100)

\* CoefficientsTable::calculate_result_score
CoefficientsTable_calculate_result_score(self, result, gender, event_name) ==
    LET coefficients == get_coefficients(self, gender, event_name)
    IN  IF coefficients = None
            THEN Err(CoefficientsNotFound(gender, event_name))
            ELSE Ok(round(raw_points(coefficients.val, result)))

CoefficientsNotLoaded ==
    "Coefficients not loaded. Call load_coefficients() first."

\* The free function with COEFFICIENTS.get().expect(..) in place of
\* ok_or_else(..)?: a panic while the cell is empty.
calculate_result_score_expecting(result, gender, event_name) ==
    IF COEFFICIENTS = None
        THEN [tag |-> "Panic"]
        ELSE CoefficientsTable_calculate_result_score(
                 COEFFICIENTS.val, result, gender, event_name)

\* The free function calculate_result_score, which reads the COEFFICIENTS
\* cell.
calculate_result_score(result, gender, event_name) ==
    IF COEFFICIENTS = None
        THEN Err(CoefficientsNotLoaded)
        ELSE CoefficientsTable_calculate_result_score(
                 COEFFICIENTS.val, result, gender, event_name)

(***************************************************************************)
(* The score orchestrator (scoring_logic/calculator.rs) and the two        *)
(* resolvers it is handed as function pointers.                            *)
(***************************************************************************)
\* The free function answering Some(0) while the CALCULATOR cell is empty.
placement_score_calculate_placement_score_zero_when_unset(input) ==
    IF CALCULATOR = None
        THEN Some(0)
        ELSE calculate_placement_score(CALCULATOR.val, input)

\* The free function calculate_placement_score of placement_score.rs,
\* which reads the CALCULATOR cell.
placement_score_calculate_placement_score(input) ==
    IF CALCULATOR = None
        THEN None
        ELSE calculate_placement_score(CALCULATOR.val, input)

\* The gate taking the road race walks for road running events as well.
is_road_running_event_with_road_walks(event) ==
    \/ event.family = "RoadRunning"
    \/ /\ event.family = "RaceWalking"
       /\ event.variant \in {"Road5kmW", "Road10kmW", "Road15kmW",
                             "Road20kmW", "Road30kmW", "Road35kmW",
                             "Road50kmW"}

is_road_running_event(event) == event.family = "RoadRunning"

\* The gate with the road mile, a short straight race, among the
\* wind-affected events.
is_wind_affected_event_with_road_mile(event) ==
    \/ /\ event.family = "TrackAndField"
       /\ event.variant \in {"M100", "M200", "M100H", "M110H", "LJ", "TJ"}
    \/ event = EventOf("RoadRunning", "RoadMile")

\* The gate with the short-track 200m among the wind-affected events.
is_wind_affected_event_with_short_track(event) ==
    /\ event.family = "TrackAndField"
    /\ event.variant \in {"M100", "M200", "M200mSh", "M100H", "M110H", "LJ",
                          "TJ"}

is_wind_affected_event(event) ==
    /\ event.family = "TrackAndField"
    /\ event.variant \in {"M100", "M200", "M100H", "M110H", "LJ", "TJ"}

\* The mock resolvers of calculator.rs's tests.
mock_result_score_calculator(performance, gender, event_name) ==
    Ok(performance)

mock_placement_score_calculator(input) ==
    IF input.place = 1 THEN Some(100) ELSE Some(0)

\* The functions a caller passes as result_score_calculator and as
\* placement_score_calculator: the tests pass the mocks, the score form
\* the two free functions.
ResultScoreCalculators ==
    {"mock_result_score_calculator", "calculate_result_score"}

PlacementScoreCalculators ==
    {"mock_placement_score_calculator", "calculate_placement_score"}

\* A call through the function pointer f.
call_result_score_calculator(f, performance, gender, event_name) ==
    CASE f = "mock_result_score_calculator" ->
             mock_result_score_calculator(performance, gender, event_name)
      [] f = "calculate_result_score" ->
             calculate_result_score(performance, gender, event_name)

call_placement_score_calculator(f, input) ==
    CASE f = "mock_placement_score_calculator" ->
             mock_placement_score_calculator(input)
      [] f = "calculate_placement_score" ->
             placement_score_calculate_placement_score(input)

\* Option::unwrap_or
unwrap_or(option, default) ==
    IF option = None THEN default ELSE option.val

\* The struct literal with place and size_of_final, both i32, taken from
\* each other's field.
placement_calc_input_place_from_size(event, placement_info) ==
    [ event |-> event,
      competition_category |-> placement_info.competition_category,
      round_type |-> placement_info.round,
      place |-> placement_info.size_of_final,
      qualified_to_final |-> placement_info.qualified_to_final,
      size_of_final |-> placement_info.place ]

\* The PlacementScoreCalcInput literal built from the input's event and its
\* PlacementInfo.
placement_calc_input(event, placement_info) ==
    [ event |-> event,
      competition_category |-> placement_info.competition_category,
      round_type |-> placement_info.round,
      place |-> placement_info.place,
      qualified_to_final |-> placement_info.qualified_to_final,
      size_of_final |-> placement_info.size_of_final ]

\* A record of one call made through a function pointer.
CallOf(callee, args) == [callee |-> callee, args |-> args]

\* The orchestrator resolving the placement score before the result score.
calculate_world_athletics_score_placement_first(input, result_score_calculator, placement_score_calculator) ==
    LET event_id == to_string(input.event)
        calc_input == placement_calc_input(input.event, input.placement_info.val)
        placement_calls ==
            IF input.placement_info # None
                THEN <<CallOf("placement_score_calculator", <<calc_input>>)>>
                ELSE <<>>
        placing_score ==
            IF input.placement_info # None
                THEN unwrap_or(call_placement_score_calculator(
                                   placement_score_calculator, calc_input), 0)
                ELSE 0
        result_call ==
            CallOf("result_score_calculator",
                   <<input.performance, input.gender, event_id>>)
        result ==
            call_result_score_calculator(result_score_calculator,
                input.performance, input.gender, event_id)
    IN  IF result.tag = "Err"
            THEN [ret |-> result, calls |-> placement_calls \o <<result_call>>]
            ELSE LET with_wind ==
                         IF is_wind_affected_event(input.event)
                             THEN result.val
                                  + calculate_wind_adjustment(input.wind_speed)
                             ELSE result.val
                     with_downhill ==
                         IF is_road_running_event(input.event)
                             THEN with_wind
                                  + calculate_downhill_adjustment(
                                        input.net_downhill)
                             ELSE with_wind
                 IN  [ret |-> Ok(with_downhill + placing_score * 100),
                      calls |-> placement_calls \o <<result_call>>]

\* The orchestrator returning the adjusted result score alone, the placing
\* score left out of the sum.
calculate_world_athletics_score_without_placing(input, result_score_calculator, placement_score_calculator) ==
    LET event_id == to_string(input.event)
        result_call ==
            CallOf("result_score_calculator",
                   <<input.performance, input.gender, event_id>>)
        result ==
            call_result_score_calculator(result_score_calculator,
                input.performance, input.gender, event_id)
    IN  IF result.tag = "Err"
            THEN [ret |-> result, calls |-> <<result_call>>]
            ELSE LET with_wind ==
                         IF is_wind_affected_event(input.event)
                             THEN result.val
                                  + calculate_wind_adjustment(input.wind_speed)
                             ELSE result.val
                     with_downhill ==
                         IF is_road_running_event(input.event)
                             THEN with_wind
                                  + calculate_downhill_adjustment(
                                        input.net_downhill)
                             ELSE with_wind
                     calc_input ==
                         placement_calc_input(input.event,
                                              input.placement_info.val)
                     placement_calls ==
                         IF input.placement_info # None
                             THEN <<CallOf("placement_score_calculator",
                                           <<calc_input>>)>>
                             ELSE <<>>
                     placing_score ==
                         IF input.placement_info # None
                             THEN unwrap_or(call_placement_score_calculator(
                                      placement_score_calculator, calc_input),
                                      0)
                             ELSE 0
                 IN  [ret |-> Ok(with_downhill),
                      calls |-> <<result_call>> \o placement_calls]

\* calculate_world_athletics_score: its result, and the calls it made
\* through the two function pointers, in order.
calculate_world_athletics_score(input, result_score_calculator, placement_score_calculator) ==
    LET event_id == to_string(input.event)
        result_call ==
            CallOf("result_score_calculator",
                   <<input.performance, input.gender, event_id>>)
        result ==
            call_result_score_calculator(result_score_calculator,
                input.performance, input.gender, event_id)
    IN  IF result.tag = "Err"
            THEN [ret |-> result, calls |-> <<result_call>>]
            ELSE LET with_wind ==
                         IF is_wind_affected_event(input.event)
                             THEN result.val
                                  + calculate_wind_adjustment(input.wind_speed)
                             ELSE result.val
                     with_downhill ==
                         IF is_road_running_event(input.event)
                             THEN with_wind
                                  + calculate_downhill_adjustment(
                                        input.net_downhill)
                             ELSE with_wind
                     calc_input ==
                         placement_calc_input(input.event,
                                              input.placement_info.val)
                     placement_calls ==
                         IF input.placement_info # None
                             THEN <<CallOf("placement_score_calculator",
                                           <<calc_input>>)>>
                             ELSE <<>>
                     placing_score ==
                         IF input.placement_info # None
                             THEN unwrap_or(call_placement_score_calculator(
                                      placement_score_calculator, calc_input),
                                      0)
                             ELSE 0
                 IN  [ret |-> Ok(with_downhill + placing_score * 100),
                      calls |-> <<result_call>> \o placement_calls]

(***************************************************************************)
(* The two write-once statics and their initialisers.  The JSON files are  *)
(* embedded at build time; data tells of each of them whether it is        *)
(* well-formed JSON of the expected shape in the build at hand.            *)
(***************************************************************************)
Unit == <<>>

\* The display strings of the events each gender has coefficients for
\* (test_all_enum_events_must_exist_in_json): every event but the cross
\* country ones and the combined events and hurdles of the other gender.
MenEventStrings ==
    {to_string(e) : e \in {x \in Event : x.family # "CrossCountry"}}
        \ {"100m Hurdle", "Hept.", "Pent. short track"}

WomenEventStrings ==
    {to_string(e) : e \in {x \in Event : x.family # "CrossCountry"}}
        \ {"110m Hurdle", "Dec.", "Hept. short track"}

\* A table with the keys of world_athletics_constants_2025.json; every
\* event carries the 100m coefficients of TEST_JSON_DATA.
WorldAthleticsConstants ==
    [ men |-> [ events |->
        [s \in MenEventStrings |-> TestTable.men.events["100m"]] ],
      women |-> [ events |->
        [s \in WomenEventStrings |-> TestTable.women.events["100m"]] ] ]

\* The message of a serde_json error.
SerdeError == "expected value at line 1 column 1"

\* The builds: each embedded file either parses or is malformed.
EmbeddedData ==
    [ coefficients : {"well-formed", "malformed"},
      placement : {"well-formed", "malformed"} ]

ValidData == [coefficients |-> "well-formed", placement |-> "well-formed"]

\* A set that replaces the stored value and reports success every time.
OnceCell_set_overwriting(cell, value) ==
    [cell |-> Some(value), result |-> Ok(Unit)]

\* OnceCell::set / OnceLock::set: stores the value if the cell is empty,
\* hands it back as the error otherwise; one atomic step.
OnceCell_set(cell, value) ==
    IF cell = None
        THEN [cell |-> Some(value), result |-> Ok(Unit)]
        ELSE [cell |-> cell, result |-> Err(value)]

\* load_coefficients up to the `?`: the parse of the embedded file.
load_coefficients_parse ==
    IF data.coefficients = "malformed"
        THEN Err("Failed to parse coefficients JSON: " \o SerdeError)
        ELSE Ok(WorldAthleticsConstants)

CoefficientsAlreadyLoaded == "Coefficients already loaded."

\* The tail of load_coefficients dropping the outcome of the set
\* (let _ = COEFFICIENTS.set(table); Ok(())).
load_coefficients_set_ignoring_rejection(cell, table) ==
    LET set == OnceCell_set(cell, table)
    IN  [ret |-> Ok(Unit), cell |-> set.cell]

\* load_coefficients from COEFFICIENTS.set on: the result and the cell.
load_coefficients_set(cell, table) ==
    LET set == OnceCell_set(cell, table)
    IN  [ ret |-> IF set.result.tag = "Err"
                      THEN Err(CoefficientsAlreadyLoaded)
                      ELSE Ok(Unit),
          cell |-> set.cell ]

\* load_coefficients falling back to an empty table when the parse fails
\* (from_str(..).unwrap_or_default() stored before the error is reported).
load_coefficients_storing_default_on_failure(cell) ==
    LET table == load_coefficients_parse
        empty == [men |-> [events |-> <<>>], women |-> [events |-> <<>>]]
    IN  IF table.tag = "Err"
            THEN [ret |-> table, cell |-> OnceCell_set(cell, empty).cell]
            ELSE load_coefficients_set(cell, table.val)

load_coefficients(cell) ==
    LET table == load_coefficients_parse
    IN  IF table.tag = "Err"
            THEN [ret |-> table, cell |-> cell]
            ELSE load_coefficients_set(cell, table.val)

\* init_placement_score_calculator up to the first `?`:
\* PlacementCalculator::new, whose error is the serde error itself.
init_placement_score_calculator_parse ==
    IF data.placement = "malformed"
        THEN Err(SerdeError)
        ELSE Ok(TestCalculator)

CalculatorAlreadyInitialized == "Calculator already initialized"

init_placement_score_calculator_set(cell, new_calculator) ==
    LET set == OnceCell_set(cell, new_calculator)
    IN  [ ret |-> IF set.result.tag = "Err"
                      THEN Err(CalculatorAlreadyInitialized)
                      ELSE Ok(Unit),
          cell |-> set.cell ]

init_placement_score_calculator(cell) ==
    LET new_calculator == init_placement_score_calculator_parse
    IN  IF new_calculator.tag = "Err"
            THEN [ret |-> new_calculator, cell |-> cell]
            ELSE init_placement_score_calculator_set(cell,
                                                     new_calculator.val)

(***************************************************************************)
(* The explored inputs.                                                    *)
(***************************************************************************)
\* Strings that are no event's display string: the empty string, a
\* commented-out variant, a variant's Rust name, a wrong case.
OtherStrings == {"", "10000m Walk", "M100", "road marathon"}

StringInputs == {to_string(e) : e \in Event} \cup OtherStrings

\* Places: negative, zero, the scored places and one beyond them, and the
\* place 11 of the semifinal tests.
PlaceInputs == (-1 .. MaxPlace + 1) \cup {11}

\* Sizes of the final: negative, zero and both sides of the 9 / 10 divide.
SizeOfFinalInputs == {-1, 0, 8, 9, 10, 11}

PlacementScoreCalcInput ==
    [ event : Event,
      competition_category : Range(CompetitionCategory),
      round_type : Range(RoundType),
      place : PlaceInputs,
      qualified_to_final : BOOLEAN,
      size_of_final : SizeOfFinalInputs ]

WindInputs == {None} \cup {Some(v) : v \in -MaxWind .. MaxWind}

DownhillInputs == {None} \cup {Some(d) : d \in -MaxDrop .. MaxDrop}

\* Performances: 6.50 and 10.00, and 10.50 and the hundredths after it.
ResultInputs == {650, 1000} \cup (1050 .. 1050 + MaxResultStep)

\* Event names: keys of the tables and a name none of them has.
EventNameInputs ==
    {"100m", "LJ", "5000m", "HJ", "110m Hurdle", "NonExistentEvent"}

\* The (round, qualified_to_final, size_of_final) triples of the explored
\* PlacementInfo values.
RoundInputs ==
    { <<"Final", TRUE, 12>>, <<"SemiFinal", TRUE, 9>>,
      <<"SemiFinal", FALSE, 12>>, <<"Other", FALSE, 9>> }

PlacementInfo ==
    { [ competition_category |-> c, place |-> p, round |-> r[1],
        size_of_final |-> r[3], qualified_to_final |-> r[2] ] :
      c \in {"A", "OW"}, p \in {1, 2}, r \in RoundInputs }

WorldAthleticsScoreInput ==
    [ gender : Range(Gender),
      event : Event,
      performance : {650, 1050},
      wind_speed : {None, Some(-300), Some(210)},
      net_downhill : {None, Some(150)},
      placement_info : {None} \cup {Some(p) : p \in PlacementInfo} ]

\* The pairs of resolvers the orchestrator is called with: the mocks of its
\* test, the free functions in the score form.
Wirings ==
    { <<"mock_result_score_calculator", "mock_placement_score_calculator">>,
      <<"calculate_result_score", "calculate_placement_score">> }

\* The lookups made against the statics.
ResultScoreLookups ==
    {650, 1050} \X Range(Gender) \X {"100m", "110m Hurdle", "GenericXC"}

PlacementScoreLookups ==
    { [ event |-> EventOf("TrackAndField", "M100"),
        competition_category |-> "OW", round_type |-> "Final", place |-> 1,
        qualified_to_final |-> TRUE, size_of_final |-> 8 ],
      [ event |-> EventOf("RoadRunning", "Road10km"),
        competition_category |-> "A", round_type |-> "Final", place |-> 3,
        qualified_to_final |-> TRUE, size_of_final |-> 32 ] }

Threads == 1 .. NumThreads

\* A thread that has made no call.
IdleThread ==
    [pc |-> "idle", fn |-> "", local |-> None, ret |-> None, seen |-> None]

(***************************************************************************)
(* The state machine: a caller holding one PlacementCalculator makes one   *)
(* call after another; op, arg and ret record the call in progress.        *)
(***************************************************************************)
\* The signals of WorldAthleticsScoreForm as the component creates them.
\* Numbers are in hundredths; performance_input is the text of the field,
\* a sequence of characters.
InitialForm ==
    [ gender |-> "Men",
      event |-> EventOf("TrackAndField", "M100"),
      performance |-> 0,
      performance_input |-> <<>>,
      wind_speed |-> Some(0),
      net_downhill |-> None,
      competition_category |-> "A",
      place |-> 1,
      round |-> "Final",
      size_of_final |-> 8,
      qualified_to_final |-> FALSE,
      include_placement |-> TRUE,
      points |-> 0,
      points_calculated |-> FALSE,
      parse_error |-> None ]

Init ==
    /\ calculator \in Calculators
    /\ op = "idle"
    /\ arg = None
    /\ ret = None
    /\ calls = <<>>
    /\ data = ValidData
    /\ COEFFICIENTS = None
    /\ CALCULATOR = None
    /\ threads = [t \in Threads |-> IdleThread]
    /\ form = InitialForm

\* The call `name` on `input` runs to its result `output`.
Invoke(name, input, output) ==
    /\ op' = name
    /\ arg' = input
    /\ ret' = output
    /\ UNCHANGED <<calculator, calls, data, COEFFICIENTS, CALCULATOR, threads,
                   form>>

Call_to_string ==
    /\ op = "idle"
    /\ \E e \in Event : Invoke("to_string", e, to_string(e))

Call_from_string ==
    /\ op = "idle"
    /\ \E s \in StringInputs : Invoke("from_string", s, from_string(s))

Call_performance_type ==
    /\ op = "idle"
    /\ \E e \in Event : Invoke("performance_type", e, performance_type(e))

Call_to_placement_score_event_group ==
    /\ op = "idle"
    /\ \E e \in Event :
          Invoke("to_placement_score_event_group", e,
                 to_placement_score_event_group(e))

Call_calculate_placement_score ==
    /\ op = "idle"
    /\ \E input \in PlacementScoreCalcInput :
          Invoke("calculate_placement_score", input,
                 calculate_placement_score(calculator, input))

Call_calculate_wind_adjustment ==
    /\ op = "idle"
    /\ \E w \in WindInputs :
          Invoke("calculate_wind_adjustment", w, calculate_wind_adjustment(w))

Call_calculate_downhill_adjustment ==
    /\ op = "idle"
    /\ \E d \in DownhillInputs :
          Invoke("calculate_downhill_adjustment", d,
                 calculate_downhill_adjustment(d))

Call_CoefficientsTable_calculate_result_score ==
    /\ op = "idle"
    /\ \E self \in CoefficientsTable, result \in ResultInputs,
          gender \in Range(Gender), event_name \in EventNameInputs :
          Invoke("CoefficientsTable::calculate_result_score",
                 [ self |-> self, result |-> result, gender |-> gender,
                   event_name |-> event_name ],
                 CoefficientsTable_calculate_result_score(
                     self, result, gender, event_name))

\* The call returns and its result is dropped; the calculator and the
\* statics stay.
Return ==
    /\ op # "idle"
    /\ op' = "idle"
    /\ arg' = None
    /\ ret' = None
    /\ calls' = <<>>
    /\ UNCHANGED <<calculator, data, COEFFICIENTS, CALCULATOR, threads, form>>

Next ==
    \/ Call_to_string
    \/ Call_from_string
    \/ Call_performance_type
    \/ Call_to_placement_score_event_group
    \/ Call_calculate_placement_score
    \/ Call_calculate_wind_adjustment
    \/ Call_calculate_downhill_adjustment
    \/ Call_CoefficientsTable_calculate_result_score
    \/ Return

Spec == Init /\ [][Next]_vars

TypeOK ==
    /\ calculator \in Calculators
    /\ op \in {"idle", "to_string", "from_string", "performance_type",
               "to_placement_score_event_group", "calculate_placement_score",
               "calculate_wind_adjustment", "calculate_downhill_adjustment",
               "CoefficientsTable::calculate_result_score"}

(***************************************************************************)
(* The time utilities of impl Event.  A &str is the sequence of its        *)
(* characters, each a one-character string.  An f64 is finite, with its    *)
(* value v in ten-thousandths of a second (of a minute, of an hour), or    *)
(* one of the non-finite values.                                           *)
(***************************************************************************)
Finite(v) == [kind |-> "finite", v |-> v]
Infinity == [kind |-> "inf", v |-> 0]
NegInfinity == [kind |-> "-inf", v |-> 0]
NaN == [kind |-> "NaN", v |-> 0]

\* n whole units as an f64.
Whole(n) == Finite(n * 10000)

\* f64 + f64.
f64_add(a, b) ==
    IF a.kind = "NaN" \/ b.kind = "NaN" THEN NaN
    ELSE IF a.kind = "finite" /\ b.kind = "finite" THEN Finite(a.v + b.v)
    ELSE IF a.kind = "finite" THEN b
    ELSE IF b.kind = "finite" \/ a.kind = b.kind THEN a
    ELSE NaN

f64_neg(a) ==
    CASE a.kind = "finite" -> Finite(0 - a.v)
      [] a.kind = "inf" -> NegInfinity
      [] a.kind = "-inf" -> Infinity
      [] OTHER -> NaN

f64_sub(a, b) == f64_add(a, f64_neg(b))

\* f64 * k and f64 / k for a positive whole constant k (60.0, 3600.0).
f64_mul(a, k) == IF a.kind = "finite" THEN Finite(a.v * k) ELSE a

f64_div(a, k) == IF a.kind = "finite" THEN Finite(a.v \div k) ELSE a

\* f64::floor; of a quotient x / k it is exact: the quotient was cut
\* towards minus infinity, and so is the floor.
f64_floor(a) ==
    IF a.kind = "finite" THEN Finite((a.v \div 10000) * 10000) ELSE a

\* a < b; a comparison with NaN is false.
f64_lt(a, b) ==
    CASE a.kind = "NaN" \/ b.kind = "NaN" -> FALSE
      [] a.kind = "finite" /\ b.kind = "finite" -> a.v < b.v
      [] OTHER -> a.kind # b.kind /\ (a.kind = "-inf" \/ b.kind = "inf")

\* The characters of a &str joined into the string.
RECURSIVE Str(_)
Str(chars) == IF chars = <<>> THEN "" ELSE Head(chars) \o Str(Tail(chars))

Digit == <<"0", "1", "2", "3", "4", "5", "6", "7", "8", "9">>

DigitValue(c) == CHOOSE d \in 0 .. 9 : Digit[d + 1] = c

AllDigits(chars) == \A i \in 1 .. Len(chars) : chars[i] \in Range(Digit)

\* The number a run of digits writes.
RECURSIVE DigitsValue(_)
DigitsValue(chars) ==
    IF chars = <<>>
        THEN 0
        ELSE DigitsValue(SubSeq(chars, 1, Len(chars) - 1)) * 10
             + DigitValue(chars[Len(chars)])

\* str::trim: the whitespace at both ends removed.
RECURSIVE trim_start(_)
trim_start(s) ==
    IF s # <<>> /\ Head(s) = " " THEN trim_start(Tail(s)) ELSE s

RECURSIVE trim_end(_)
trim_end(s) ==
    IF s # <<>> /\ s[Len(s)] = " "
        THEN trim_end(SubSeq(s, 1, Len(s) - 1))
        ELSE s

trim(s) == trim_end(trim_start(s))

\* str::split(sep).collect(): the pieces between the separators, one more
\* than there are separators, empty pieces included.
RECURSIVE split(_, _)
split(s, sep) ==
    IF \A i \in 1 .. Len(s) : s[i] # sep
        THEN <<s>>
        ELSE LET i == CHOOSE k \in 1 .. Len(s) :
                          /\ s[k] = sep
                          /\ \A j \in 1 .. (k - 1) : s[j] # sep
             IN  <<SubSeq(s, 1, i - 1)>>
                 \o split(SubSeq(s, i + 1, Len(s)), sep)

\* An ASCII letter in lower case (the letters of inf, infinity and nan).
to_ascii_lowercase(c) ==
    CASE c = "I" -> "i" [] c = "N" -> "n" [] c = "F" -> "f" [] c = "A" -> "a"
      [] c = "T" -> "t" [] c = "Y" -> "y" [] OTHER -> c

\* The fraction digits as ten-thousandths: the first four digits count.
FractionValue(chars) ==
    DigitsValue(SubSeq(chars \o <<"0", "0", "0", "0">>, 1, 4))

\* str::parse::<f64>: an optional sign, then inf, infinity or nan in any
\* case, or decimal digits with at most one point and at least one digit.
\* The whole text must match; no whitespace is skipped.  (A decimal
\* exponent is accepted by the library as well; no explored text has one.)
f64_from_str(chars) ==
    LET signed == chars # <<>> /\ Head(chars) \in {"+", "-"}
        negative == chars # <<>> /\ Head(chars) = "-"
        body == IF signed THEN Tail(chars) ELSE chars
        word == Str([i \in 1 .. Len(body) |-> to_ascii_lowercase(body[i])])
        pieces == split(body, ".")
        whole == pieces[1]
        fraction == IF Len(pieces) = 2 THEN pieces[2] ELSE <<>>
        magnitude ==
            IF word \in {"inf", "infinity"} THEN Ok(Infinity)
            ELSE IF word = "nan" THEN Ok(NaN)
            ELSE IF /\ Len(pieces) <= 2
                    /\ AllDigits(whole)
                    /\ AllDigits(fraction)
                    /\ Len(whole) + Len(fraction) > 0
                THEN Ok(Finite(DigitsValue(whole) * 10000
                               + FractionValue(fraction)))
                ELSE Err(Unit)
    IN  IF magnitude.tag = "Ok" /\ negative
            THEN Ok(f64_neg(magnitude.val))
            ELSE magnitude

\* The digits of a natural number.
RECURSIVE to_digits(_)
to_digits(n) ==
    IF n < 10
        THEN <<Digit[n + 1]>>
        ELSE to_digits(n \div 10) \o <<Digit[(n % 10) + 1]>>

\* A natural number of ten-thousandths rounded to a multiple of unit
\* ten-thousandths, ties to even, in that unit.
round_half_even(v, unit) ==
    LET q == v \div unit
        r == v % unit
    IN  IF 2 * r > unit \/ (2 * r = unit /\ q % 2 = 1) THEN q + 1 ELSE q

\* Formatter::pad_formatted_parts under the 0 flag: the sign first, then
\* zeros up to the width.
RECURSIVE pad_zero(_, _)
pad_zero(chars, width) ==
    IF Len(chars) >= width
        THEN chars
        ELSE pad_zero(<<"0">> \o chars, width)

\* 10 to the power n.
RECURSIVE Pow10(_)
Pow10(n) == IF n = 0 THEN 1 ELSE 10 * Pow10(n - 1)

\* format!("{:0w.p}", x): the value rounded to p decimals, ties to even,
\* and padded with zeros to w characters.
f64_fmt(x, width, precision) ==
    LET negative == x.kind = "-inf" \/ (x.kind = "finite" /\ x.v < 0)
        sign == IF negative THEN <<"-">> ELSE <<>>
        magnitude == IF x.v < 0 THEN 0 - x.v ELSE x.v
        rounded == round_half_even(magnitude, Pow10(4 - precision))
        text ==
            CASE x.kind = "NaN" -> <<"N", "a", "N">>
              [] x.kind \in {"inf", "-inf"} -> <<"i", "n", "f">>
              [] precision = 0 -> to_digits(rounded)
              [] OTHER ->
                    to_digits(rounded \div Pow10(precision)) \o <<".">>
                    \o pad_zero(to_digits(rounded % Pow10(precision)),
                                precision)
    IN  sign \o pad_zero(text, width - Len(sign))

\* parse_time_to_seconds reading two parts as hours:minutes.
parse_time_to_seconds_two_parts_as_hours(time_str) ==
    LET trimmed == trim(time_str)
        parts == split(trimmed, ":")
        first == f64_from_str(parts[1])
    IN  CASE Len(parts) = 1 ->
                IF first.tag = "Err"
                    THEN Err("Invalid seconds format: " \o Str(trimmed))
                    ELSE first
          [] Len(parts) = 2 ->
                LET seconds == f64_from_str(parts[2])
                IN  IF first.tag = "Err"
                        THEN Err("Invalid hours: " \o Str(parts[1]))
                    ELSE IF seconds.tag = "Err"
                        THEN Err("Invalid minutes: " \o Str(parts[2]))
                    ELSE Ok(f64_add(f64_mul(first.val, 3600),
                                    f64_mul(seconds.val, 60)))
          [] Len(parts) = 3 ->
                LET minutes == f64_from_str(parts[2])
                    seconds == f64_from_str(parts[3])
                IN  IF first.tag = "Err"
                        THEN Err("Invalid hours: " \o Str(parts[1]))
                    ELSE IF minutes.tag = "Err"
                        THEN Err("Invalid minutes: " \o Str(parts[2]))
                    ELSE IF seconds.tag = "Err"
                        THEN Err("Invalid seconds: " \o Str(parts[3]))
                    ELSE Ok(f64_add(f64_add(f64_mul(first.val, 3600),
                                            f64_mul(minutes.val, 60)),
                                    seconds.val))
          [] OTHER ->
                Err("Invalid time format: " \o Str(trimmed)
                    \o ". Expected formats: ss.mmm, mm:ss.mmm, or hh:mm:ss.mmm")

\* Event::parse_time_to_seconds.
parse_time_to_seconds(time_str) ==
    LET trimmed == trim(time_str)
        parts == split(trimmed, ":")
        first == f64_from_str(parts[1])
    IN  CASE Len(parts) = 1 ->
                IF first.tag = "Err"
                    THEN Err("Invalid seconds format: " \o Str(trimmed))
                    ELSE first
          [] Len(parts) = 2 ->
                LET seconds == f64_from_str(parts[2])
                IN  IF first.tag = "Err"
                        THEN Err("Invalid minutes: " \o Str(parts[1]))
                    ELSE IF seconds.tag = "Err"
                        THEN Err("Invalid seconds: " \o Str(parts[2]))
                    ELSE Ok(f64_add(f64_mul(first.val, 60), seconds.val))
          [] Len(parts) = 3 ->
                LET minutes == f64_from_str(parts[2])
                    seconds == f64_from_str(parts[3])
                IN  IF first.tag = "Err"
                        THEN Err("Invalid hours: " \o Str(parts[1]))
                    ELSE IF minutes.tag = "Err"
                        THEN Err("Invalid minutes: " \o Str(parts[2]))
                    ELSE IF seconds.tag = "Err"
                        THEN Err("Invalid seconds: " \o Str(parts[3]))
                    ELSE Ok(f64_add(f64_add(f64_mul(first.val, 3600),
                                            f64_mul(minutes.val, 60)),
                                    seconds.val))
          [] OTHER ->
                Err("Invalid time format: " \o Str(trimmed)
                    \o ". Expected formats: ss.mmm, mm:ss.mmm, or hh:mm:ss.mmm")

\* seconds_to_time_string writing the seconds with two decimals
\* ({:05.2}).
seconds_to_time_string_with_hundredths(seconds) ==
    IF f64_lt(seconds, Whole(3600))
        THEN LET minutes == f64_floor(f64_div(seconds, 60))
                 remaining_seconds == f64_sub(seconds, f64_mul(minutes, 60))
             IN  f64_fmt(minutes, 2, 0) \o <<":">>
                 \o f64_fmt(remaining_seconds, 5, 2)
        ELSE LET hours == f64_floor(f64_div(seconds, 3600))
                 remaining_minutes ==
                     f64_floor(f64_div(
                         f64_sub(seconds, f64_mul(hours, 3600)), 60))
                 remaining_seconds ==
                     f64_sub(f64_sub(seconds, f64_mul(hours, 3600)),
                             f64_mul(remaining_minutes, 60))
             IN  f64_fmt(hours, 2, 0) \o <<":">>
                 \o f64_fmt(remaining_minutes, 2, 0) \o <<":">>
                 \o f64_fmt(remaining_seconds, 5, 2)

\* Event::seconds_to_time_string.
seconds_to_time_string(seconds) ==
    IF f64_lt(seconds, Whole(3600))
        THEN LET minutes == f64_floor(f64_div(seconds, 60))
                 remaining_seconds == f64_sub(seconds, f64_mul(minutes, 60))
             IN  f64_fmt(minutes, 2, 0) \o <<":">>
                 \o f64_fmt(remaining_seconds, 6, 3)
        ELSE LET hours == f64_floor(f64_div(seconds, 3600))
                 remaining_minutes ==
                     f64_floor(f64_div(
                         f64_sub(seconds, f64_mul(hours, 3600)), 60))
                 remaining_seconds ==
                     f64_sub(f64_sub(seconds, f64_mul(hours, 3600)),
                             f64_mul(remaining_minutes, 60))
             IN  f64_fmt(hours, 2, 0) \o <<":">>
                 \o f64_fmt(remaining_minutes, 2, 0) \o <<":">>
                 \o f64_fmt(remaining_seconds, 6, 3)

(***************************************************************************)
(* The explored time texts and seconds, and the state machine of the time  *)
(* utilities: a caller parses a text or formats a number of seconds.       *)
(***************************************************************************)
\* The texts of test_invalid_time_formats and of the form's placeholder,
\* texts with whitespace, with empty, signed, pointed and non-finite
\* parts, with a bad part in each position, and with one to five parts.
TimeStrings ==
    { <<>>,
      <<" ">>,
      <<"i", "n", "v", "a", "l", "i", "d">>,
      <<"1", ":", "2", ":", "3", ":", "4">>,
      <<"a", "b", ":", "c", "d">>,
      <<"1", ":", "a", "b", ":", "c", "d">>,
      <<"1", "0", ".", "5", "0">>,
      <<"1", ":", "3", "0", ".", "2", "5">>,
      <<"2", ":", "1", "5", ":", "3", "0", ".", "5", "0">>,
      <<" ", "1", "0", ".", "5", " ">>,
      <<" ", "1", ":", "3", "0", " ">>,
      <<"1", ":", " ", "2">>,
      <<":">>,
      <<"1", ":">>,
      <<":", "5">>,
      <<":", ":">>,
      <<"1", ":", ":", "3">>,
      <<"a", "b", ":", "1", ":", "2">>,
      <<"1", ":", "2", ":", "c", "d">>,
      <<"a", "b", ":", "1">>,
      <<"1", ":", "c", "d">>,
      <<"-", "5">>,
      <<"+", "5">>,
      <<".", "5">>,
      <<"5", ".">>,
      <<".">>,
      <<"-">>,
      <<"1", ".", "2", ".", "3">>,
      <<"1", ",", "5">>,
      <<"i", "n", "f">>,
      <<"N", "a", "N">>,
      <<"1", ":", "n", "a", "n">>,
      <<"-", "i", "n", "f">>,
      <<"0", "0", ":", "6", "0", ".", "0", "0", "0">>,
      <<"5", "9", ":", "6", "0", ".", "0", "0", "0">>,
      <<"0", "2", ":", "1", "5", ":", "3", "0", ".", "5", "0", "0">>,
      <<"1", ":", "2", ":", "3", ":", "4", ":", "5">>,
      <<"a", ":", "b", ":", "c", ":", "d">>,
      <<"9", "0">>,
      <<"1", ":", "9", "0">>,
      <<"1", ":", "7", "5", ":", "1", "0">>,
      <<"0", ":", "0", ":", "0">>,
      <<"1", "2", ".", "3", "4", "5", "6">>,
      <<"3", ":", "0">>,
      <<"2", ":", "0", "0", ":", "0", "0">> }

\* Seconds within MaxTimeStep ten-thousandths of 0, of the minute, of the
\* hour and of two hours, the 8130.50 of test_time_string_conversion_roundtrip, and
\* the infinity that parse_time_to_seconds("inf") returns.
SecondsInputs ==
    {Finite(v) : v \in (0 .. MaxTimeStep)
                       \cup (600000 - MaxTimeStep .. 600000 + MaxTimeStep)
                       \cup (36000000 - MaxTimeStep .. 36000000 + MaxTimeStep)
                       \cup (72000000 - MaxTimeStep .. 72000000 + MaxTimeStep)
                       \cup {81305000}}
        \cup {Infinity}

InitTime ==
    /\ calculator = TestCalculator
    /\ op = "idle"
    /\ arg = None
    /\ ret = None
    /\ calls = <<>>
    /\ data = ValidData
    /\ COEFFICIENTS = None
    /\ CALCULATOR = None
    /\ threads = [t \in Threads |-> IdleThread]
    /\ form = InitialForm

Call_parse_time_to_seconds ==
    /\ op = "idle"
    /\ \E time_str \in TimeStrings :
          Invoke("parse_time_to_seconds", time_str,
                 parse_time_to_seconds(time_str))

Call_seconds_to_time_string ==
    /\ op = "idle"
    /\ \E seconds \in SecondsInputs :
          Invoke("seconds_to_time_string", seconds,
                 seconds_to_time_string(seconds))

NextTime ==
    \/ Call_parse_time_to_seconds
    \/ Call_seconds_to_time_string
    \/ Return

SpecTime == InitTime /\ [][NextTime]_vars

(***************************************************************************)
(* The statics' state machine: in a build whose embedded files may be      *)
(* malformed, one thread calls the initialisers and the lookups, in any    *)
(* order and any number of times.                                          *)
(***************************************************************************)
InitStatics ==
    /\ calculator = TestCalculator
    /\ op = "idle"
    /\ arg = None
    /\ ret = None
    /\ calls = <<>>
    /\ data \in EmbeddedData
    /\ COEFFICIENTS = None
    /\ CALCULATOR = None
    /\ threads = [t \in Threads |-> IdleThread]
    /\ form = InitialForm

Call_load_coefficients ==
    /\ op = "idle"
    /\ LET out == load_coefficients(COEFFICIENTS)
       IN  /\ op' = "load_coefficients"
           /\ arg' = None
           /\ ret' = out.ret
           /\ COEFFICIENTS' = out.cell
    /\ UNCHANGED <<calculator, calls, data, CALCULATOR, threads, form>>

Call_init_placement_score_calculator ==
    /\ op = "idle"
    /\ LET out == init_placement_score_calculator(CALCULATOR)
       IN  /\ op' = "init_placement_score_calculator"
           /\ arg' = None
           /\ ret' = out.ret
           /\ CALCULATOR' = out.cell
    /\ UNCHANGED <<calculator, calls, data, COEFFICIENTS, threads, form>>

Call_calculate_result_score ==
    /\ op = "idle"
    /\ \E l \in ResultScoreLookups :
          Invoke("calculate_result_score", l,
                 calculate_result_score(l[1], l[2], l[3]))

Call_placement_score_calculate_placement_score ==
    /\ op = "idle"
    /\ \E input \in PlacementScoreLookups :
          Invoke("placement_score::calculate_placement_score", input,
                 placement_score_calculate_placement_score(input))

NextStatics ==
    \/ Call_load_coefficients
    \/ Call_init_placement_score_calculator
    \/ Call_calculate_result_score
    \/ Call_placement_score_calculate_placement_score
    \/ Return

SpecStatics == InitStatics /\ [][NextStatics]_vars

(***************************************************************************)
(* The orchestrator's state machine: the initialisers, the lookups and     *)
(* calculate_world_athletics_score are called in any order, the            *)
(* orchestrator with the mocks or with the free functions.                 *)
(***************************************************************************)
InitScore == InitStatics

Call_calculate_world_athletics_score ==
    /\ op = "idle"
    /\ \E input \in WorldAthleticsScoreInput, wiring \in Wirings :
          LET out == calculate_world_athletics_score(input, wiring[1],
                                                     wiring[2])
          IN  /\ op' = "calculate_world_athletics_score"
              /\ arg' = [ input |-> input,
                          result_score_calculator |-> wiring[1],
                          placement_score_calculator |-> wiring[2] ]
              /\ ret' = out.ret
              /\ calls' = out.calls
    /\ UNCHANGED <<calculator, data, COEFFICIENTS, CALCULATOR, threads, form>>

NextScore ==
    \/ Call_load_coefficients
    \/ Call_init_placement_score_calculator
    \/ Call_calculate_result_score
    \/ Call_placement_score_calculate_placement_score
    \/ Call_calculate_world_athletics_score
    \/ Return

SpecScore == InitScore /\ [][NextScore]_vars

(***************************************************************************)
(* The threads' state machine: in a build whose files are well-formed,     *)
(* each of NumThreads threads makes one call, of an initialiser or of a    *)
(* lookup.  An initialiser takes two steps, the parse into a local value   *)
(* and the set of the cell; a set and a lookup's get are atomic, as        *)
(* OnceCell and OnceLock make them.                                        *)
(***************************************************************************)
InitThreads ==
    /\ InitStatics
    /\ data = ValidData

ThreadResultScoreLookup == <<1050, "Men", "100m">>

ThreadPlacementScoreLookup ==
    [ event |-> EventOf("TrackAndField", "M100"),
      competition_category |-> "OW", round_type |-> "Final", place |-> 1,
      qualified_to_final |-> TRUE, size_of_final |-> 8 ]

\* Thread t starts initialiser fn, whose parse returned parsed.
Parsed(t, fn, parsed) ==
    /\ threads' =
           [threads EXCEPT ![t] =
               IF parsed.tag = "Err"
                   THEN [ pc |-> "done", fn |-> fn, local |-> None,
                          ret |-> parsed, seen |-> None ]
                   ELSE [ pc |-> "set", fn |-> fn, local |-> Some(parsed.val),
                          ret |-> None, seen |-> None ]]

\* Thread t finishes its call of fn with result r.
Done(t, fn, r, seen) ==
    threads' = [threads EXCEPT ![t] =
                   [ pc |-> "done", fn |-> fn, local |-> None, ret |-> r,
                     seen |-> seen ]]

T_load_coefficients_parse ==
    \E t \in Threads :
        /\ threads[t].pc = "idle"
        /\ Parsed(t, "load_coefficients", load_coefficients_parse)
        /\ UNCHANGED <<form, calculator, op, arg, ret, calls, data, COEFFICIENTS,
                       CALCULATOR>>

T_load_coefficients_set ==
    \E t \in Threads :
        /\ threads[t].pc = "set"
        /\ threads[t].fn = "load_coefficients"
        /\ LET out == load_coefficients_set(COEFFICIENTS, threads[t].local.val)
           IN  /\ COEFFICIENTS' = out.cell
               /\ Done(t, "load_coefficients", out.ret, None)
        /\ UNCHANGED <<form, calculator, op, arg, ret, calls, data, CALCULATOR>>

T_init_placement_score_calculator_parse ==
    \E t \in Threads :
        /\ threads[t].pc = "idle"
        /\ Parsed(t, "init_placement_score_calculator",
                  init_placement_score_calculator_parse)
        /\ UNCHANGED <<form, calculator, op, arg, ret, calls, data, COEFFICIENTS,
                       CALCULATOR>>

T_init_placement_score_calculator_set ==
    \E t \in Threads :
        /\ threads[t].pc = "set"
        /\ threads[t].fn = "init_placement_score_calculator"
        /\ LET out == init_placement_score_calculator_set(
                          CALCULATOR, threads[t].local.val)
           IN  /\ CALCULATOR' = out.cell
               /\ Done(t, "init_placement_score_calculator", out.ret, None)
        /\ UNCHANGED <<form, calculator, op, arg, ret, calls, data, COEFFICIENTS>>

\* A lookup: seen records the cell as the get found it.
T_calculate_result_score ==
    \E t \in Threads :
        /\ threads[t].pc = "idle"
        /\ Done(t, "calculate_result_score",
                calculate_result_score(ThreadResultScoreLookup[1],
                                       ThreadResultScoreLookup[2],
                                       ThreadResultScoreLookup[3]),
                COEFFICIENTS)
        /\ UNCHANGED <<form, calculator, op, arg, ret, calls, data, COEFFICIENTS,
                       CALCULATOR>>

T_calculate_placement_score ==
    \E t \in Threads :
        /\ threads[t].pc = "idle"
        /\ Done(t, "calculate_placement_score",
                placement_score_calculate_placement_score(
                    ThreadPlacementScoreLookup),
                CALCULATOR)
        /\ UNCHANGED <<form, calculator, op, arg, ret, calls, data, COEFFICIENTS,
                       CALCULATOR>>

NextThreads ==
    \/ T_load_coefficients_parse
    \/ T_load_coefficients_set
    \/ T_init_placement_score_calculator_parse
    \/ T_init_placement_score_calculator_set
    \/ T_calculate_result_score
    \/ T_calculate_placement_score

SpecThreads == InitThreads /\ [][NextThreads]_vars

(***************************************************************************)
(* The component WorldAthleticsScoreForm: its event handlers as functions  *)
(* from the signals to the signals, what its view shows, and its state     *)
(* machine.  The texts of the fields are sequences of characters; the      *)
(* numbers parsed from them are kept in hundredths.                        *)
(***************************************************************************)
\* A parsed f64 in hundredths; every explored text writes a finite number
\* of at most two decimals.
Hundredths(x) == x.v \div 100

TimeFormatError ==
    "Invalid time format. Use formats like 10.50, 1:30.25, or 2:15:30.50"

DistanceFormatError ==
    "Invalid distance format. Enter a number in meters (e.g., 8.95)"

\* Result::or_else followed by map_err: the first result if it is Ok, else
\* the second if it is Ok, else the error message.
or_else(first, second, message) ==
    IF first.tag = "Ok" THEN first
    ELSE IF second.tag = "Ok" THEN second
    ELSE Err(message)

\* Result::map_err with a constant message.
map_err(result, message) ==
    IF result.tag = "Ok" THEN result ELSE Err(message)

\* Result::unwrap_or.
Result_unwrap_or(result, default) ==
    IF result.tag = "Ok" THEN result.val ELSE default

\* The performance text parsed as the event's performance type asks: a
\* time through parse_time_to_seconds and then as a plain number, a
\* distance as a plain number.
parse_performance(event, value) ==
    IF performance_type(event) = "Time"
        THEN or_else(parse_time_to_seconds(value), f64_from_str(value),
                     TimeFormatError)
        ELSE map_err(f64_from_str(value), DistanceFormatError)

\* on:change of the gender select.
gender_on_change(f, value) ==
    [f EXCEPT !.gender = IF value = "Men" THEN "Men" ELSE "Women"]

\* Option::map of a setter: the signals with field set to the value of a
\* Some, the signals as they are on None.
set_if_some(f, field, option) ==
    IF option # None THEN [f EXCEPT ![field] = option.val] ELSE f

\* on:change of the event select.
event_on_change(f, value) == set_if_some(f, "event", from_string(value))

\* The tail of the performance field's on:input, from the match on the
\* validation result on.
performance_validated(typed, value, validation_result) ==
    IF validation_result.tag = "Ok"
        THEN [typed EXCEPT
                  !.performance = Hundredths(validation_result.val),
                  !.parse_error = None]
        ELSE IF value # <<>>
            THEN [typed EXCEPT !.parse_error = Some(validation_result.err)]
            ELSE typed

\* on:input of the performance field.
performance_on_input(f, value) ==
    performance_validated(
        [f EXCEPT !.performance_input = value, !.parse_error = None],
        value, parse_performance(f.event, value))

\* The number a wind, net downhill field's text is taken for: 0.0 for an
\* empty and for an unparsable text.
parsed_value(value) ==
    IF value = <<>>
        THEN 0
        ELSE Hundredths(Result_unwrap_or(f64_from_str(value), Finite(0)))

\* The on:input of the wind field written after the one of the net
\* downhill field: an empty field clears the signal.
wind_speed_on_input_clearing_when_empty(f, value) ==
    IF value = <<>>
        THEN [f EXCEPT !.wind_speed = None]
        ELSE [f EXCEPT !.wind_speed = Some(parsed_value(value))]

\* on:input of the wind field.
wind_speed_on_input(f, value) ==
    [f EXCEPT !.wind_speed = Some(parsed_value(value))]

\* on:change of the placement checkbox.
include_placement_on_change(f, checked) ==
    [f EXCEPT !.include_placement = checked]

\* on:input of the net downhill field.
net_downhill_on_input(f, value) ==
    IF value = <<>>
        THEN [f EXCEPT !.net_downhill = None]
        ELSE [f EXCEPT !.net_downhill = Some(parsed_value(value))]

\* CompetitionCategory::from_string: the first variant displayed as s.
CompetitionCategory_from_string(s) ==
    LET hits == {i \in 1 .. Len(CompetitionCategory) :
                     CompetitionCategory[i] = s}
    IN  IF hits = {}
            THEN None
            ELSE Some(CompetitionCategory[
                          CHOOSE i \in hits : \A j \in hits : i <= j])

\* on:change of the competition category select.
competition_category_on_change(f, value) ==
    set_if_some(f, "competition_category",
                CompetitionCategory_from_string(value))

\* str::parse::<i32>: an optional sign and at least one digit.
i32_from_str(chars) ==
    LET signed == chars # <<>> /\ Head(chars) \in {"+", "-"}
        body == IF signed THEN Tail(chars) ELSE chars
    IN  IF body # <<>> /\ AllDigits(body)
            THEN Ok(IF Head(chars) = "-"
                        THEN 0 - DigitsValue(body)
                        ELSE DigitsValue(body))
            ELSE Err(Unit)

\* on:input of the place field.
place_on_input(f, value) ==
    [f EXCEPT !.place = Result_unwrap_or(i32_from_str(value), 1)]

\* on:change of the round select.
round_on_change(f, value) ==
    [f EXCEPT !.round = CASE value = "Final" -> "Final"
                          [] value = "SemiFinal" -> "SemiFinal"
                          [] OTHER -> "Other"]

\* on:input of the size-of-final field.
size_of_final_on_input(f, value) ==
    [f EXCEPT !.size_of_final = Result_unwrap_or(i32_from_str(value), 8)]

\* on:change of the qualified-to-final checkbox.
qualified_to_final_on_change(f, checked) ==
    [f EXCEPT !.qualified_to_final = checked]

\* The input handle_submit builds from the signals and the parsed
\* performance.
submitted_input(f, parsed_performance) ==
    [ gender |-> f.gender,
      event |-> f.event,
      performance |-> parsed_performance,
      wind_speed |-> IF is_wind_affected_event(f.event)
                         THEN f.wind_speed
                         ELSE None,
      net_downhill |-> IF is_road_running_event(f.event)
                           THEN f.net_downhill
                           ELSE None,
      placement_info |->
          IF f.include_placement
              THEN Some([ competition_category |-> f.competition_category,
                          place |-> f.place,
                          round |-> f.round,
                          size_of_final |-> f.size_of_final,
                          qualified_to_final |-> f.qualified_to_final ])
              ELSE None ]

\* The end of handle_submit, the match on calculated_points; out is what
\* calculate_world_athletics_score returned for input and the calls it
\* made.
handle_submit_calculated(f, input, out) ==
    [ form |-> IF out.ret.tag = "Ok"
                   THEN [f EXCEPT !.points = out.ret.val,
                                  !.points_calculated = TRUE]
                   ELSE [f EXCEPT !.points_calculated = FALSE],
      input |-> Some(input),
      calculated_points |-> Some(out.ret),
      calls |-> out.calls ]

\* handle_submit from the input on.
handle_submit_input(f, input) ==
    handle_submit_calculated(
        f, input,
        calculate_world_athletics_score(input, "calculate_result_score",
                                        "calculate_placement_score"))

\* handle_submit from the match on the parsed performance on.
handle_submit_parsed(f, parsed_performance) ==
    IF parsed_performance.tag = "Err"
        THEN [ form |-> [f EXCEPT
                            !.parse_error = Some(parsed_performance.err)],
               input |-> None, calculated_points |-> None, calls |-> <<>> ]
        ELSE handle_submit_input(
                 f, submitted_input(f, Hundredths(parsed_performance.val)))

\* A submit handler that goes on to the parse and the score while
\* parse_error is set.
handle_submit_ignoring_parse_error(f) ==
    handle_submit_parsed(f, parse_performance(f.event, f.performance_input))

\* handle_submit: the signals after it, the input it passed to
\* calculate_world_athletics_score and what that returned (None when it
\* returned before the call), and the calls made through the resolvers.
handle_submit(f) ==
    IF f.parse_error # None
        THEN [ form |-> f, input |-> None, calculated_points |-> None,
               calls |-> <<>> ]
        ELSE handle_submit_parsed(
                 f, parse_performance(f.event, f.performance_input))

\* The conditions of the view's <Show> blocks.
wind_speed_shown(f) == is_wind_affected_event(f.event)

net_downhill_shown(f) == is_road_running_event(f.event)

placement_shown(f) == f.include_placement

size_of_final_shown(f) == f.include_placement /\ f.round = "SemiFinal"

\* What the view shows of the signals: the line under the performance
\* field, the fields shown, whether the button is disabled, and the text
\* of the result panel, the points written with two decimals.
view(f) ==
    [ performance_message |->
          IF f.parse_error # None
              THEN unwrap_or(f.parse_error, "")
          ELSE IF performance_type(f.event) = "Time"
              THEN "Enter time as seconds (10.50) or formatted time (mm:ss.mmm or hh:mm:ss.mmm)"
              ELSE "Enter distance in meters (e.g., 8.95 for long jump)",
      wind_speed_shown |-> wind_speed_shown(f),
      net_downhill_shown |-> net_downhill_shown(f),
      placement_shown |-> placement_shown(f),
      size_of_final_shown |-> size_of_final_shown(f),
      submit_disabled |-> f.parse_error # None,
      result |->
          IF f.points_calculated
              THEN "Points: " \o Str(f64_fmt(Finite(f.points * 100), 0, 2))
              ELSE "Submit the form to calculate points" ]

\* The events, texts and options the user enters: an event of each
\* kind (wind-affected and timed, wind-affected and measured, without
\* coefficients for men, road running); a performance text that is
\* empty, a number, a time that is no number, and neither; wind and net
\* downhill texts that are empty, a number and, for the wind, unparsable.
FormEvents ==
    { EventOf("TrackAndField", "M100"), EventOf("TrackAndField", "LJ"),
      EventOf("TrackAndField", "M100H"),
      EventOf("RoadRunning", "RoadMarathon") }

PerformanceTexts ==
    { <<>>, <<"1", "0", ".", "5", "0">>, <<"0", ":", "1", "0", ".", "5">>,
      <<"a", "b", "c">> }

WindTexts == { <<>>, <<"2", ".", "1">>, <<"a", "b", "c">> }

NetDownhillTexts == { <<>>, <<"0", ".", "5">> }

PlaceTexts == { <<>>, <<"1">> }

SizeOfFinalTexts == { <<"8">> }

\* The state machine of the mounted form: main has called both
\* initialisers in a build whose files are well-formed; then the handlers
\* run one at a time, a whole handler in one step.  A submit is a
\* call whose argument is the input passed to the score and whose result
\* is the score's.
InitForm ==
    /\ calculator = TestCalculator
    /\ op = "idle"
    /\ arg = None
    /\ ret = None
    /\ calls = <<>>
    /\ data = ValidData
    /\ COEFFICIENTS = load_coefficients(None).cell
    /\ CALCULATOR = init_placement_score_calculator(None).cell
    /\ threads = [t \in Threads |-> IdleThread]
    /\ form = InitialForm

\* The signals become f; nothing else changes.
SetSignals(f) ==
    /\ form' = f
    /\ UNCHANGED <<calculator, op, arg, ret, calls, data, COEFFICIENTS,
                   CALCULATOR, threads>>

On_gender_change ==
    /\ op = "idle"
    /\ \E value \in {"Men", "Women"} : SetSignals(gender_on_change(form, value))

On_event_change ==
    /\ op = "idle"
    /\ \E e \in FormEvents : SetSignals(event_on_change(form, to_string(e)))

On_performance_input ==
    /\ op = "idle"
    /\ \E value \in PerformanceTexts :
          SetSignals(performance_on_input(form, value))

On_wind_speed_input ==
    /\ op = "idle"
    /\ wind_speed_shown(form)
    /\ \E value \in WindTexts : SetSignals(wind_speed_on_input(form, value))

On_include_placement_change ==
    /\ op = "idle"
    /\ \E checked \in BOOLEAN :
          SetSignals(include_placement_on_change(form, checked))

On_net_downhill_input ==
    /\ op = "idle"
    /\ net_downhill_shown(form)
    /\ \E value \in NetDownhillTexts :
          SetSignals(net_downhill_on_input(form, value))

On_competition_category_change ==
    /\ op = "idle"
    /\ placement_shown(form)
    /\ \E value \in {"A", "OW"} :
          SetSignals(competition_category_on_change(form, value))

On_place_input ==
    /\ op = "idle"
    /\ placement_shown(form)
    /\ \E value \in PlaceTexts : SetSignals(place_on_input(form, value))

On_round_change ==
    /\ op = "idle"
    /\ placement_shown(form)
    /\ \E value \in {"Final", "SemiFinal"} :
          SetSignals(round_on_change(form, value))

On_size_of_final_input ==
    /\ op = "idle"
    /\ size_of_final_shown(form)
    /\ \E value \in SizeOfFinalTexts :
          SetSignals(size_of_final_on_input(form, value))

On_qualified_to_final_change ==
    /\ op = "idle"
    /\ size_of_final_shown(form)
    /\ \E checked \in {FALSE} :
          SetSignals(qualified_to_final_on_change(form, checked))

On_submit ==
    /\ op = "idle"
    /\ \E out \in {handle_submit(form)} :
          /\ op' = "handle_submit"
          /\ arg' = out.input
          /\ ret' = out.calculated_points
          /\ calls' = out.calls
          /\ form' = out.form
    /\ UNCHANGED <<calculator, data, COEFFICIENTS, CALCULATOR, threads>>

NextForm ==
    \/ On_gender_change
    \/ On_event_change
    \/ On_performance_input
    \/ On_wind_speed_input
    \/ On_include_placement_change
    \/ On_net_downhill_input
    \/ On_competition_category_change
    \/ On_place_input
    \/ On_round_change
    \/ On_size_of_final_input
    \/ On_qualified_to_final_change
    \/ On_submit
    \/ Return

SpecForm == InitForm /\ [][NextForm]_vars

(***************************************************************************)
(* Event taxonomy properties.                                              *)
(***************************************************************************)
Families ==
    {"TrackAndField", "CombinedEvents", "RoadRunning", "RaceWalking",
     "CrossCountry"}

\* C1: for every event all_variants produces (events of all five
\* families), from_string of the event's display string returns Some of
\* that same event, and no two distinct events share a display string.
C1_FromStringInvertsToString ==
    op = "from_string" =>
        /\ {e.family : e \in Range(all_variants)} = Families
        /\ \A e \in Range(all_variants) :
              arg = to_string(e) => ret = Some(e)
        /\ \A e1, e2 \in Range(all_variants) :
              to_string(e1) = to_string(e2) => e1 = e2

\* The display string of a road walk is parsed back to the walk, not to the
\* road race of the same distance.
C1_Witness ==
    /\ op = "from_string"
    /\ arg = "Road 10km Walk"
    /\ ret = Some(EventOf("RaceWalking", "Road10kmW"))

\* The classification table of the specification, by display string.
GroupByDisplayString(e) ==
    LET s == to_string(e)
    IN  CASE s \in {"5000m", "3000m SC"} -> "Distance5000m3000mSC"
          [] s = "10000m" -> "Distance10000m"
          [] s = "Road 10 km" -> "Road10km"
          [] s = "Road Marathon" -> "RoadMarathon"
          [] s \in {"Road HM", "Road 30 km", "Road 25 km"} -> "HalfMarathon"
          [] s \in {"20,000m Walk", "Road 20km Walk", "Road 5km Walk",
                    "Road 10km Walk", "Road 15km Walk", "3000m Walk",
                    "5000m Walk", "15,000m Walk"} -> "RaceWalking20Km"
          [] s \in {"35,000m Walk", "Road 35km Walk"} -> "RaceWalking35Km"
          [] OTHER ->
                CASE e.family = "RaceWalking" -> "RaceWalking35KmSimilar"
                  [] e.family = "TrackAndField" -> "TrackAndField"
                  [] e.family = "CombinedEvents" -> "CombinedEvent"
                  [] e.family = "RoadRunning" -> "RoadRunning"
                  [] e.family = "CrossCountry" -> "CrossCountry"

\* C2: to_placement_score_event_group is total (it yields a member of
\* PlacementScoreEventGroup for every event) and classifies every event as
\* the table of the specification says.
C2_EventGroupClassification ==
    op = "to_placement_score_event_group" =>
        /\ ret \in Range(PlacementScoreEventGroup)
        /\ ret = GroupByDisplayString(arg)

\* Road 25 km is scored with the half marathon.
C2_Witness ==
    /\ op = "to_placement_score_event_group"
    /\ arg = EventOf("RoadRunning", "Road25km")
    /\ ret = "HalfMarathon"

FieldEventStrings ==
    {"Long Jump", "Triple Jump", "High Jump", "Pole Vault", "Shot Put",
     "Discus Throw", "Hammer Throw", "Javelin Throw"}

\* C3: performance_type is Distance exactly for the eight track-and-field
\* field events and Time for every other event of every family.
C3_PerformanceType ==
    op = "performance_type" =>
        /\ ret = IF arg.family = "TrackAndField"
                    /\ to_string(arg) \in FieldEventStrings
                 THEN "Distance"
                 ELSE "Time"
        /\ Cardinality({e \in Event : e.family = "TrackAndField"
                           /\ to_string(e) \in FieldEventStrings}) = 8

\* The javelin throw is measured as a distance.
C3_Witness ==
    /\ op = "performance_type"
    /\ arg = EventOf("TrackAndField", "JT")
    /\ ret = "Distance"

(***************************************************************************)
(* Placement score properties.  The sub-table the specification names for  *)
(* each group and round, and the entry of a sub-table, are stated here     *)
(* apart from the match of calculate_placement_score.                      *)
(***************************************************************************)
FinalTable ==
    [ TrackAndField |-> "track_field_final",
      Distance5000m3000mSC |-> "distance_5000m_3000mSC_final",
      Distance10000m |-> "distance_10000m_final",
      Road10km |-> "road_10km_final",
      CombinedEvent |-> "combined_events",
      RoadMarathon |-> "road_marathon",
      HalfMarathon |-> "half_marathon_similar_event",
      RoadRunning |-> "road_running_event_group",
      RaceWalking20Km |-> "race_walking_20km",
      RaceWalking35Km |-> "race_walking_35km",
      RaceWalking35KmSimilar |-> "race_walking_30km_50km",
      CrossCountry |-> "cross_country_finals" ]

SmallFinalSemiTable ==
    [ TrackAndField |-> "track_field_semi_max9",
      Distance5000m3000mSC |-> "distance_5000m_3000mSC_semi_max9" ]

LargeFinalSemiTable ==
    [ TrackAndField |-> "track_field_semi_10plus",
      Distance5000m3000mSC |-> "distance_5000m_3000mSC_semi_10plus" ]

GroupsWithSemiTables == {"TrackAndField", "Distance5000m3000mSC"}

GroupOf(input) == to_placement_score_event_group(input.event)

HasSemiTable(input) ==
    input.round_type = "SemiFinal" /\ GroupOf(input) \in GroupsWithSemiTables

SemiTableOf(input) ==
    IF input.size_of_final <= 9
    THEN SmallFinalSemiTable[GroupOf(input)]
    ELSE LargeFinalSemiTable[GroupOf(input)]

\* The entry of the calculator's sub-table t for (category, p), if any.
Entry(t, category, p) ==
    LET table == calculator.data[t]
    IN  IF category \in DOMAIN table /\ p \in DOMAIN table[category]
        THEN Some(table[category][p])
        ELSE None

QualifiedSemiFinalist(input) ==
    input.round_type = "SemiFinal" /\ input.qualified_to_final

\* C4: a semifinalist who qualified for the final is scored by the place-1
\* entry of the semifinal sub-table whatever place was supplied; in every
\* other case the supplied place is used, so that a final with
\* qualified_to_final set is still scored by its actual place.
C4_EffectivePlace ==
    op = "calculate_placement_score" =>
        /\ (HasSemiTable(arg) /\ arg.qualified_to_final) =>
              ret = Entry(SemiTableOf(arg), arg.competition_category, 1)
        /\ (HasSemiTable(arg) /\ ~arg.qualified_to_final) =>
              ret = Entry(SemiTableOf(arg), arg.competition_category,
                          arg.place)
        /\ arg.round_type = "Final" =>
              ret = Entry(FinalTable[GroupOf(arg)],
                          arg.competition_category, arg.place)

\* The test of the source: place 11 of a DF semifinal, qualified for a final
\* of 11, is scored 90 like place 1.
C4_Witness ==
    /\ op = "calculate_placement_score"
    /\ calculator = TestCalculator
    /\ arg.event = EventOf("TrackAndField", "M100")
    /\ arg.competition_category = "DF"
    /\ arg.round_type = "SemiFinal"
    /\ arg.place = 11
    /\ arg.qualified_to_final
    /\ arg.size_of_final = 11
    /\ ret = Some(90)

EffectivePlace(input) ==
    IF QualifiedSemiFinalist(input) THEN 1 ELSE input.place

\* C5: a semifinal of a TrackAndField or Distance5000m3000mSC event is
\* scored from the group's semi_max9 table when size_of_final <= 9 and from
\* its semi_10plus table when size_of_final > 9 (zero and negative sizes
\* included), by competition_category and effective place, and from no
\* other table.
C5_SemiFinalTableBySize ==
    (op = "calculate_placement_score" /\ HasSemiTable(arg)) =>
        LET small == SmallFinalSemiTable[GroupOf(arg)]
            large == LargeFinalSemiTable[GroupOf(arg)]
        IN  /\ arg.size_of_final <= 9 =>
                  ret = Entry(small, arg.competition_category,
                              EffectivePlace(arg))
            /\ arg.size_of_final > 9 =>
                  ret = Entry(large, arg.competition_category,
                              EffectivePlace(arg))

\* A semifinal before a final of exactly nine, every table filled with
\* different scores: the score is the one of the small-final table.
C5_Witness ==
    /\ op = "calculate_placement_score"
    /\ calculator = FullCalculator
    /\ arg.event = EventOf("TrackAndField", "M3000mSC")
    /\ arg.round_type = "SemiFinal"
    /\ arg.size_of_final = 9
    /\ ~arg.qualified_to_final
    /\ arg.place = 2
    /\ ret = Entry("distance_5000m_3000mSC_semi_max9",
                   arg.competition_category, 2)
    /\ ret # None
    /\ ret # Entry("distance_5000m_3000mSC_semi_10plus",
                   arg.competition_category, 2)

\* C6: a final is scored from the final sub-table of the event's group, by
\* (competition_category, place); size_of_final and qualified_to_final have
\* no influence on the result.
C6_FinalTable ==
    (op = "calculate_placement_score" /\ arg.round_type = "Final") =>
        /\ ret = Entry(FinalTable[GroupOf(arg)], arg.competition_category,
                       arg.place)
        /\ \A size \in SizeOfFinalInputs, qualified \in BOOLEAN :
              ret = calculate_placement_score(calculator,
                        [arg EXCEPT !.size_of_final = size,
                                    !.qualified_to_final = qualified])

\* A 50 km walk final, every table filled with different scores: the score
\* is the one of race_walking_30km_50km, although qualified_to_final is set.
C6_Witness ==
    /\ op = "calculate_placement_score"
    /\ calculator = FullCalculator
    /\ arg.event = EventOf("RaceWalking", "Road50kmW")
    /\ arg.round_type = "Final"
    /\ arg.place = 2
    /\ arg.qualified_to_final
    /\ ret = Entry("race_walking_30km_50km", arg.competition_category, 2)
    /\ ret # None

\* C7: a semifinal of an event of any other group, and a round Other of any
\* event, has no placement score, whatever the other inputs and the tables.
C7_NoTableMeansNone ==
    op = "calculate_placement_score" =>
        /\ (arg.round_type = "SemiFinal"
            /\ GroupOf(arg) \notin GroupsWithSemiTables) => ret = None
        /\ arg.round_type = "Other" => ret = None

\* A Road 10 km semifinal has no score although the final table of the
\* group holds one for the category and place.
C7_Witness ==
    /\ op = "calculate_placement_score"
    /\ arg.event = EventOf("RoadRunning", "Road10km")
    /\ arg.round_type = "SemiFinal"
    /\ Entry("road_10km_final", arg.competition_category, arg.place) # None
    /\ ret = None

\* The sub-table a call reads, where there is one.
ReadsTable(input) == input.round_type = "Final" \/ HasSemiTable(input)

TableRead(input) ==
    IF input.round_type = "Final"
    THEN FinalTable[GroupOf(input)]
    ELSE SemiTableOf(input)

IsOptionOfInt(x) == x = None \/ (x.tag = "Some" /\ x.val \in Int)

\* C8: when the sub-table read has no entry for the category, or the
\* category's map none for the effective place, the result is None; every
\* call yields an Option and none fails.
C8_AbsentKeyIsNone ==
    op = "calculate_placement_score" =>
        /\ IsOptionOfInt(ret)
        /\ ReadsTable(arg) =>
              LET table == calculator.data[TableRead(arg)]
                  category == arg.competition_category
              IN  /\ category \notin DOMAIN table => ret = None
                  /\ (category \in DOMAIN table
                      /\ EffectivePlace(arg) \notin DOMAIN table[category])
                        => ret = None

\* A qualified semifinalist in a category whose map scores other places but
\* not place 1.
C8_Witness ==
    /\ op = "calculate_placement_score"
    /\ calculator = SparseCalculator
    /\ arg.event = EventOf("TrackAndField", "M100")
    /\ arg.round_type = "SemiFinal"
    /\ arg.qualified_to_final
    /\ arg.competition_category = "A"
    /\ arg.place = 2
    /\ Entry(SemiTableOf(arg), "A", 2) # None
    /\ ret = None

(***************************************************************************)
(* Adjustment properties, in hundredths of a point and of a m/s or m/km.   *)
(***************************************************************************)
\* C9: the wind adjustment is -30 without a wind reading, -6 v for v <= 0
\* (a bonus, 0 at 0), 0 for 0 < v <= 2.0, and -6 v for v > 2.0: counted from
\* zero, not -6 (v - 2.0), so that 2.1 m/s gives -12.6 and not -0.6.
C9_WindAdjustment ==
    op = "calculate_wind_adjustment" =>
        IF arg = None
        THEN ret = -3000
        ELSE LET v == arg.val
             IN  /\ v <= 0 => (ret = -6 * v /\ ret >= 0)
                 /\ v = 0 => ret = 0
                 /\ (0 < v /\ v <= 200) => ret = 0
                 /\ v > 200 => (ret = -6 * v /\ ret # -6 * (v - 200))
                 /\ v = 210 => ret = -1260

C9_Witness ==
    /\ op = "calculate_wind_adjustment"
    /\ arg = Some(210)
    /\ ret = -1260

\* C10: the downhill adjustment is 0 without a drop and for a drop <= 1.0
\* (negative drops included), and -(6.0 + (drop - 1.0) * 10.0 * 0.6) for a
\* drop > 1.0, so that 1.5 gives -9.0 and 2.5 gives -15.0.
C10_DownhillAdjustment ==
    op = "calculate_downhill_adjustment" =>
        IF arg = None
        THEN ret = 0
        ELSE LET drop == arg.val
             IN  /\ drop <= 100 => ret = 0
                 /\ drop > 100 =>
                       100 * ret = -(60000 + (drop - 100) * 10 * 60)
                 /\ drop = 150 => ret = -900
                 /\ drop = 250 => ret = -1500

C10_Witness ==
    /\ op = "calculate_downhill_adjustment"
    /\ arg = Some(250)
    /\ ret = -1500

(***************************************************************************)
(* Result score properties.                                                *)
(***************************************************************************)
Abs(x) == IF x >= 0 THEN x ELSE 0 - x

\* The gender's map of a table, read off the table itself.
GenderMap(table, gender) ==
    IF gender = "Men" THEN table.men.events ELSE table.women.events

\* 40000 * (a*p^2 + b*p + c) for coefficients that are multiples of 0.25
\* and p in hundredths: an exact integer.
ExactRaw40000(raw, p) ==
    (raw[1] \div 250000) * p * p
    + (raw[2] \div 2500) * p * 100
    + (raw[3] \div 2500) * 10000

\* C20: when the table has coefficients (a, b, c) for the gender and the
\* event name, calculate_result_score returns Ok of a whole number of
\* points that is a nearest integer to a*p^2 + b*p + c (at most one half
\* away from it, so not the floor whenever the fraction exceeds one half);
\* Men's 100m of the test table at 10.5 gives 1040.
C20_ResultScoreRounded ==
    op = "CoefficientsTable::calculate_result_score" =>
        LET gender_map == GenderMap(arg.self, arg.gender)
            raw == gender_map[arg.event_name]
        IN  arg.event_name \in DOMAIN gender_map =>
                /\ ret.tag = "Ok"
                /\ ret.val % 100 = 0
                /\ 2 * Abs(ret.val * 100
                           - raw_points(Coefficients_from(raw), arg.result))
                       <= 10000
                /\ arg.self = QuarterTable =>
                       2 * Abs(ret.val * 400 - ExactRaw40000(raw, arg.result))
                           <= 40000
                /\ ( /\ arg.self = TestTable
                     /\ arg.gender = "Men"
                     /\ arg.event_name = "100m"
                     /\ arg.result = 1050 ) => ret.val = 104000

\* Men's 100m of the test table at 10.5 has been scored 1040.
C20_Witness ==
    /\ op = "CoefficientsTable::calculate_result_score"
    /\ arg.self = TestTable
    /\ arg.gender = "Men"
    /\ arg.event_name = "100m"
    /\ arg.result = 1050
    /\ ret = Ok(104000)

(***************************************************************************)
(* Orchestrator properties.                                                *)
(***************************************************************************)
\* What the call in progress would have returned on another input, the
\* resolvers and the statics being the same.
Rerun(input) ==
    calculate_world_athletics_score(input, arg.result_score_calculator,
                                    arg.placement_score_calculator).ret

WindAffectedStrings ==
    {"100m", "200m", "100m Hurdle", "110m Hurdle", "Long Jump", "Triple Jump"}

WindSpeeds == {None, Some(-300), Some(0), Some(210)}

\* C11: the orchestrator adds the wind adjustment exactly for the events
\* displayed as 100m, 200m, 100m Hurdle, 110m Hurdle, Long Jump and Triple
\* Jump: for those the total exceeds the total at wind 0.0 by the wind
\* adjustment, which is -30 points when wind_speed is absent; for every
\* other event the total is the same at every wind_speed, present or
\* absent.
C11_WindGate ==
    (op = "calculate_world_athletics_score" /\ ret.tag = "Ok") =>
        LET input == arg.input
            calm == Rerun([input EXCEPT !.wind_speed = Some(0)])
        IN  IF to_string(input.event) \in WindAffectedStrings
                THEN /\ calm.tag = "Ok"
                     /\ ret.val - calm.val
                            = calculate_wind_adjustment(input.wind_speed)
                     /\ input.wind_speed = None => ret.val - calm.val = -3000
                ELSE \A w \in WindSpeeds :
                         Rerun([input EXCEPT !.wind_speed = w]) = ret

\* A long jump of 6.50 without wind information has been scored through the
\* mocks: 6.50 - 30.
C11_Witness ==
    /\ op = "calculate_world_athletics_score"
    /\ arg.input.event = EventOf("TrackAndField", "LJ")
    /\ arg.input.wind_speed = None
    /\ arg.input.performance = 650
    /\ arg.input.placement_info = None
    /\ arg.result_score_calculator = "mock_result_score_calculator"
    /\ ret = Ok(-2350)

NetDownhills == {None, Some(0), Some(150), Some(250)}

\* C12: the orchestrator adds the downhill adjustment exactly for the
\* events of the Road Running family: for those the total exceeds the total
\* of a flat course by the downhill adjustment; for every event of another
\* family, the road race walks included, the total is the same at every
\* net_downhill, present or absent.
C12_DownhillGate ==
    (op = "calculate_world_athletics_score" /\ ret.tag = "Ok") =>
        LET input == arg.input
            flat == Rerun([input EXCEPT !.net_downhill = Some(0)])
        IN  IF input.event.family = "RoadRunning"
                THEN /\ flat.tag = "Ok"
                     /\ ret.val - flat.val
                            = calculate_downhill_adjustment(input.net_downhill)
                ELSE \A d \in NetDownhills :
                         Rerun([input EXCEPT !.net_downhill = d]) = ret

\* A marathon on a course dropping 1.5 m/km has been scored through the
\* mocks 9 points below its result score.
C12_Witness ==
    /\ op = "calculate_world_athletics_score"
    /\ arg.input.net_downhill = Some(150)
    /\ arg.input.performance = 1050
    /\ arg.input.placement_info = None
    /\ arg.result_score_calculator = "mock_result_score_calculator"
    /\ arg.input.event = EventOf("RoadRunning", "RoadMarathon")
    /\ ret = Ok(150)

\* What the result resolver of the call in progress returns on the call's
\* performance, gender and event string.
Resolved ==
    call_result_score_calculator(arg.result_score_calculator,
        arg.input.performance, arg.input.gender, to_string(arg.input.event))

\* The calls the call in progress made through placement_score_calculator.
PlacementCalls ==
    SelectSeq(calls, LAMBDA c : c.callee = "placement_score_calculator")

\* C13: the orchestrator returns an error exactly when
\* result_score_calculator returns one; the error is the resolver's own,
\* unchanged, and placement_score_calculator has then not been called; in
\* every other case the orchestrator returns Ok with a total.
C13_ErrorPropagation ==
    op = "calculate_world_athletics_score" =>
        /\ ret.tag \in {"Ok", "Err"}
        /\ ret.tag = "Err" <=> Resolved.tag = "Err"
        /\ Resolved.tag = "Err" =>
               /\ ret = Resolved
               /\ PlacementCalls = <<>>
        /\ ret.tag = "Ok" => ret.val \in Int

\* The score form's wiring with the coefficients loaded: a cross country
\* race with placement information has come back with the coefficients'
\* not-found error, and the only call made was the one to the result
\* resolver.
C13_Witness ==
    /\ op = "calculate_world_athletics_score"
    /\ arg.result_score_calculator = "calculate_result_score"
    /\ COEFFICIENTS # None
    /\ arg.input.event = EventOf("CrossCountry", "GenericXC")
    /\ arg.input.gender = "Men"
    /\ arg.input.placement_info # None
    /\ ret = Err("Coefficients not found for gender \"men\" and event: GenericXC")
    /\ Len(calls) = 1

\* The PlacementScoreCalcInput the claim describes: the input's event and
\* the PlacementInfo fields, each under its own name.
CopiedFields(input) ==
    LET info == input.placement_info.val
    IN  [ event |-> input.event,
          competition_category |-> info.competition_category,
          round_type |-> info.round,
          place |-> info.place,
          qualified_to_final |-> info.qualified_to_final,
          size_of_final |-> info.size_of_final ]

\* The total without a placement bonus: what the same call returns when
\* placement_info is absent.
WithoutPlacement == Rerun([arg.input EXCEPT !.placement_info = None])

\* C14 as stated: with placement_info absent the placement resolver is not
\* called and no bonus is added; with placement_info present the resolver
\* is called exactly once, with the event and the PlacementInfo fields
\* copied, and a None result adds 0.
C14_AsStated ==
    op = "calculate_world_athletics_score" =>
        IF arg.input.placement_info = None
            THEN PlacementCalls = <<>>
            ELSE /\ Len(PlacementCalls) = 1
                 /\ PlacementCalls[1].args = <<CopiedFields(arg.input)>>
                 /\ call_placement_score_calculator(
                        arg.placement_score_calculator,
                        CopiedFields(arg.input)) = None
                        => (ret.tag = "Ok" /\ ret = WithoutPlacement)

\* C14, amended: with placement_info absent the placement resolver is not
\* called and no bonus is added; with placement_info present and the result
\* resolver succeeding, the placement resolver is called exactly once, with
\* the input's event and the PlacementInfo fields copied unchanged, the
\* orchestrator returns Ok, and a None result adds 0 to the total; with
\* the result resolver failing the placement resolver is not called.
C14_PlacementCall ==
    op = "calculate_world_athletics_score" =>
        IF arg.input.placement_info = None \/ Resolved.tag = "Err"
            THEN /\ PlacementCalls = <<>>
                 /\ ret = WithoutPlacement
            ELSE /\ Len(PlacementCalls) = 1
                 /\ PlacementCalls[1].args = <<CopiedFields(arg.input)>>
                 /\ ret.tag = "Ok"
                 /\ call_placement_score_calculator(
                        arg.placement_score_calculator,
                        CopiedFields(arg.input)) = None
                        => ret = WithoutPlacement

\* The score form's wiring with both tables loaded: a 100m final of a
\* category the placement table lacks has been scored; the placement
\* resolver was called once and returned None, and the total is Ok.
C14_Witness ==
    /\ op = "calculate_world_athletics_score"
    /\ arg.placement_score_calculator = "calculate_placement_score"
    /\ CALCULATOR # None
    /\ arg.input.event = EventOf("TrackAndField", "M100")
    /\ arg.input.placement_info # None
    /\ arg.input.placement_info.val.competition_category = "A"
    /\ arg.input.placement_info.val.round = "Final"
    /\ arg.input.placement_info.val.place = 2
    /\ arg.input.placement_info.val.size_of_final = 12
    /\ Len(PlacementCalls) = 1
    /\ PlacementCalls[1].args[1].place = 2
    /\ PlacementCalls[1].args[1].size_of_final = 12
    /\ placement_score_calculate_placement_score(PlacementCalls[1].args[1])
           = None
    /\ ret.tag = "Ok"

\* The placement bonus of the call in progress, in whole points.
PlacementBonus ==
    IF arg.input.placement_info = None
        THEN 0
        ELSE LET score == call_placement_score_calculator(
                              arg.placement_score_calculator,
                              CopiedFields(arg.input))
             IN  IF score = None THEN 0 ELSE score.val

\* C15: on success the total is the result score of (performance, gender,
\* event string), plus the wind adjustment if the event is wind-affected,
\* plus the downhill adjustment if the event is a road running event, plus
\* the placement bonus if placement_info is present and the resolver
\* returns a value, and nothing else.
C15_TotalIsSum ==
    (op = "calculate_world_athletics_score" /\ ret.tag = "Ok") =>
        ret.val =
            Resolved.val
            + (IF to_string(arg.input.event) \in WindAffectedStrings
                   THEN calculate_wind_adjustment(arg.input.wind_speed)
                   ELSE 0)
            + (IF arg.input.event.family = "RoadRunning"
                   THEN calculate_downhill_adjustment(arg.input.net_downhill)
                   ELSE 0)
            + PlacementBonus * 100

\* Women's long jump of 6.50 into a 3.0 m/s headwind, through the mocks:
\* 6.50 + 18.0 = 24.50.
C15_Witness ==
    /\ op = "calculate_world_athletics_score"
    /\ arg.result_score_calculator = "mock_result_score_calculator"
    /\ arg.input.gender = "Women"
    /\ arg.input.event = EventOf("TrackAndField", "LJ")
    /\ arg.input.performance = 650
    /\ arg.input.wind_speed = Some(-300)
    /\ arg.input.placement_info = None
    /\ ret = Ok(2450)

(***************************************************************************)
(* Lookups before initialisation.                                          *)
(***************************************************************************)
\* C18: while no load_coefficients call has succeeded (the COEFFICIENTS
\* cell is empty), calculate_result_score returns the not-loaded error on
\* every input, and calculate_world_athletics_score called with it as the
\* result resolver returns that same error.
C18_NotLoadedError ==
    COEFFICIENTS = None =>
        /\ op = "calculate_result_score" =>
               ret = Err("Coefficients not loaded. Call load_coefficients() first.")
        /\ ( /\ op = "calculate_world_athletics_score"
             /\ arg.result_score_calculator = "calculate_result_score" ) =>
               ret = Err("Coefficients not loaded. Call load_coefficients() first.")

\* Before any load_coefficients call has succeeded the score form's call
\* has come back with the not-loaded error.
C18_Witness ==
    /\ COEFFICIENTS = None
    /\ op = "calculate_world_athletics_score"
    /\ arg.result_score_calculator = "calculate_result_score"
    /\ arg.input.event = EventOf("TrackAndField", "M100")
    /\ ret = Err("Coefficients not loaded. Call load_coefficients() first.")

\* C19 as stated: while no init_placement_score_calculator call has
\* succeeded, calculate_placement_score returns None, and
\* calculate_world_athletics_score called with it as the placement resolver
\* returns Ok with a total without placement bonus.
C19_AsStated ==
    CALCULATOR = None =>
        /\ op = "placement_score::calculate_placement_score" => ret = None
        /\ ( /\ op = "calculate_world_athletics_score"
             /\ arg.placement_score_calculator = "calculate_placement_score" )
               => (ret.tag = "Ok" /\ ret = WithoutPlacement)

\* C19, amended: while no init_placement_score_calculator call has
\* succeeded (the CALCULATOR cell is empty), calculate_placement_score
\* returns None on every input, and calculate_world_athletics_score called
\* with it as the placement resolver returns what it returns without
\* placement_info: Ok with a total without placement bonus whenever the
\* result resolver succeeds, the result resolver's error otherwise.
C19_NoBonusBeforeInit ==
    CALCULATOR = None =>
        /\ op = "placement_score::calculate_placement_score" => ret = None
        /\ ( /\ op = "calculate_world_athletics_score"
             /\ arg.placement_score_calculator = "calculate_placement_score" )
               => /\ ret = WithoutPlacement
                  /\ ret.tag = "Ok" <=> Resolved.tag = "Ok"
                  /\ ret.tag = "Err" => ret = Resolved

\* The score form's wiring with the coefficients loaded and the placement
\* table not: a won 5000m final has been scored Ok, the placement resolver
\* was called and the total is the result score alone.
C19_Witness ==
    /\ CALCULATOR = None
    /\ COEFFICIENTS # None
    /\ op = "calculate_world_athletics_score"
    /\ arg.placement_score_calculator = "calculate_placement_score"
    /\ arg.input.event = EventOf("TrackAndField", "M5000")
    /\ arg.input.placement_info # None
    /\ arg.input.placement_info.val.competition_category = "OW"
    /\ arg.input.placement_info.val.round = "Final"
    /\ arg.input.placement_info.val.place = 1
    /\ Len(PlacementCalls) = 1
    /\ ret.tag = "Ok"
    /\ ret = Resolved

(***************************************************************************)
(* Write-once statics.                                                     *)
(***************************************************************************)
\* C16: each table is write-once.  A call of load_coefficients (of
\* init_placement_score_calculator) succeeds only on an empty cell and
\* fills it; once the cell is filled every later call returns the
\* already-loaded (already-initialized) error, which is not the parse
\* error, the cell keeps the table of the first success, and every lookup
\* returns after the call what it returned before it.
C16_WriteOnce ==
    [][ /\ COEFFICIENTS # None => COEFFICIENTS' = COEFFICIENTS
        /\ CALCULATOR # None => CALCULATOR' = CALCULATOR
        /\ op' = "load_coefficients" =>
               /\ ret' = Ok(Unit) =>
                      (COEFFICIENTS = None /\ COEFFICIENTS' # None)
               /\ COEFFICIENTS # None =>
                      /\ ret' = Err("Coefficients already loaded.")
                      /\ ret' # Err("Failed to parse coefficients JSON: "
                                    \o SerdeError)
                      /\ \A l \in ResultScoreLookups :
                             calculate_result_score(l[1], l[2], l[3])'
                                 = calculate_result_score(l[1], l[2], l[3])
        /\ op' = "init_placement_score_calculator" =>
               /\ ret' = Ok(Unit) => (CALCULATOR = None /\ CALCULATOR' # None)
               /\ CALCULATOR # None =>
                      /\ ret' = Err("Calculator already initialized")
                      /\ ret' # Err(SerdeError)
                      /\ \A input \in PlacementScoreLookups :
                             placement_score_calculate_placement_score(input)'
                                 = placement_score_calculate_placement_score(
                                       input)
      ]_vars

\* Both tables are loaded and a further load_coefficients call has been
\* rejected as already loaded.
C16_Witness ==
    /\ op = "load_coefficients"
    /\ ret = Err("Coefficients already loaded.")
    /\ COEFFICIENTS = Some(WorldAthleticsConstants)
    /\ CALCULATOR = Some(TestCalculator)

\* The threads that called fn, and those of them whose call has returned r.
Callers(fn) == {t \in Threads : threads[t].fn = fn}

Returned(fn, r) ==
    {t \in Callers(fn) : threads[t].pc = "done" /\ threads[t].ret = r}

\* Of the calls of initialiser fn on the given cell: at most one has
\* returned Ok, every other finished call has returned the rejection, once
\* all of them have finished exactly one has returned Ok, and the cell is
\* filled, with the parsed table, exactly when one has returned Ok.
OneWinner(fn, cell, table, rejection) ==
    /\ Cardinality(Returned(fn, Ok(Unit))) <= 1
    /\ \A t \in Callers(fn) :
           threads[t].pc = "done" =>
               threads[t].ret \in {Ok(Unit), Err(rejection)}
    /\ ( /\ Callers(fn) # {}
         /\ \A t \in Callers(fn) : threads[t].pc = "done" ) =>
           Cardinality(Returned(fn, Ok(Unit))) = 1
    /\ cell \in {None, Some(table)}
    /\ cell # None <=> Returned(fn, Ok(Unit)) # {}

\* C17: with initialiser calls for the same table interleaved with each
\* other and with lookups, exactly one call returns Ok and every other one
\* the already-loaded (already-initialized) error, and every lookup has
\* found the cell either empty (and answered not-loaded / None) or holding
\* the complete table of the winning call (and answered from it).
C17_ConcurrentInit ==
    /\ OneWinner("load_coefficients", COEFFICIENTS, WorldAthleticsConstants,
                 "Coefficients already loaded.")
    /\ OneWinner("init_placement_score_calculator", CALCULATOR,
                 TestCalculator, "Calculator already initialized")
    /\ \A t \in Callers("calculate_result_score") :
           \/ /\ threads[t].seen = None
              /\ threads[t].ret
                     = Err("Coefficients not loaded. Call load_coefficients() first.")
           \/ /\ threads[t].seen = Some(WorldAthleticsConstants)
              /\ threads[t].ret
                     = CoefficientsTable_calculate_result_score(
                           WorldAthleticsConstants, ThreadResultScoreLookup[1],
                           ThreadResultScoreLookup[2],
                           ThreadResultScoreLookup[3])
    /\ \A t \in Callers("calculate_placement_score") :
           \/ /\ threads[t].seen = None
              /\ threads[t].ret = None
           \/ /\ threads[t].seen = Some(TestCalculator)
              /\ threads[t].ret = Some(375)

\* Two threads have called init_placement_score_calculator: one was
\* answered Ok, the other already-initialized, and a third thread's lookup
\* found the table.
C17_Witness ==
    /\ Cardinality(Callers("init_placement_score_calculator")) = 2
    /\ Cardinality(Returned("init_placement_score_calculator", Ok(Unit))) = 1
    /\ Cardinality(Returned("init_placement_score_calculator",
                            Err("Calculator already initialized"))) = 1
    /\ \E t \in Callers("calculate_placement_score") :
           threads[t].ret = Some(375)

(***************************************************************************)
(* Coefficient lookup and rounding.                                        *)
(***************************************************************************)
\* The other gender.
OtherGender(gender) == IF gender = "Men" THEN "Women" ELSE "Men"

\* C21: the coefficient lookup reads the requested gender's map only.  If
\* that map has no entry for the event name, calculate_result_score returns
\* the not-found error, whose message names the gender and the event name,
\* whether or not the other gender's map has the event; if it has an
\* entry, the result is Ok.
C21_LookupByGenderAndEvent ==
    op = "CoefficientsTable::calculate_result_score" =>
        IF arg.event_name \in DOMAIN GenderMap(arg.self, arg.gender)
            THEN ret.tag = "Ok"
            ELSE ret = Err("Coefficients not found for gender \""
                           \o (IF arg.gender = "Men" THEN "men" ELSE "women")
                           \o "\" and event: " \o arg.event_name)

\* The test table has HJ for women only: the men's lookup of HJ has
\* returned the not-found error.
C21_Witness ==
    /\ op = "CoefficientsTable::calculate_result_score"
    /\ arg.self = TestTable
    /\ arg.gender = "Men"
    /\ arg.event_name = "HJ"
    /\ "HJ" \in DOMAIN GenderMap(TestTable, OtherGender("Men"))
    /\ ret = Err("Coefficients not found for gender \"men\" and event: HJ")

\* C24, as the doc comment of calculate_result_score has it: the returned
\* points are the raw value of the formula floored, the largest whole
\* number of points not above it.
C24_ResultScoreFloored ==
    op = "CoefficientsTable::calculate_result_score" =>
        LET gender_map == GenderMap(arg.self, arg.gender)
        IN  arg.event_name \in DOMAIN gender_map =>
                LET raw == raw_points(
                               Coefficients_from(gender_map[arg.event_name]),
                               arg.result)
                IN  /\ ret.tag = "Ok"
                    /\ ret.val % 100 = 0
                    /\ ret.val * 100 <= raw
                    /\ raw < ret.val * 100 + 10000

\* C26, as test_various_event_types_performance_classification has it: the
\* race-walking family holds the 10,000 m track walk M10000mW, an event of
\* the taxonomy whose performance type is Time, which a caller can pass
\* to performance_type.
C26_TrackWalk10000 ==
    op = "idle" =>
    /\ "M10000mW" \in Range(RaceWalkingEvent)
    /\ EventOf("RaceWalking", "M10000mW") \in Range(all_variants)
    /\ performance_type(EventOf("RaceWalking", "M10000mW")) = "Time"

\* C27: no event passes both the wind gate and the downhill gate, and a
\* total the orchestrator returned depends on at most one of wind_speed
\* and net_downhill: it is the same at every wind_speed or the same at
\* every net_downhill.
C27_GatesDisjoint ==
    (op = "calculate_world_athletics_score" /\ ret.tag = "Ok") =>
        LET input == arg.input
        IN  /\ ~ (/\ is_wind_affected_event(input.event)
                  /\ is_road_running_event(input.event))
            /\ \/ \A w \in WindSpeeds :
                      Rerun([input EXCEPT !.wind_speed = w]) = ret
               \/ \A d \in NetDownhills :
                      Rerun([input EXCEPT !.net_downhill = d]) = ret

\* A 100m with a tailwind of 2.1 m/s and a net downhill of 1.5 m/km, both
\* given, has been scored: the wind changed the total, the downhill did
\* not.
C27_Witness ==
    /\ op = "calculate_world_athletics_score"
    /\ ret.tag = "Ok"
    /\ arg.input.event = EventOf("TrackAndField", "M100")
    /\ arg.input.wind_speed = Some(210)
    /\ arg.input.net_downhill = Some(150)
    /\ Rerun([arg.input EXCEPT !.wind_speed = Some(0)]) # ret
    /\ Rerun([arg.input EXCEPT !.net_downhill = None]) = ret

\* C28: a call of an initialiser that fails on the parse of its file
\* leaves its cell unset and is not answered with the already-loaded
\* error; an initialiser answers with the already-loaded error exactly
\* when the cell held a table before the call; and in a build whose file
\* is malformed every lookup reports not-loaded (coefficients) or None
\* (placement), whatever calls came before.
C28_FailedInitLeavesUnset ==
    [][ /\ (op = "idle" /\ op' = "load_coefficients") =>
              /\ (ret' = Err(CoefficientsAlreadyLoaded))
                     <=> (COEFFICIENTS # None)
              /\ (ret'.tag = "Err" /\ ret' # Err(CoefficientsAlreadyLoaded))
                     => (COEFFICIENTS = None /\ COEFFICIENTS' = None)
        /\ (op = "idle" /\ op' = "init_placement_score_calculator") =>
              /\ (ret' = Err(CalculatorAlreadyInitialized))
                     <=> (CALCULATOR # None)
              /\ (ret'.tag = "Err"
                     /\ ret' # Err(CalculatorAlreadyInitialized))
                     => (CALCULATOR = None /\ CALCULATOR' = None)
        /\ (data.coefficients = "malformed"
               /\ op' = "calculate_result_score") =>
              ret' = Err(CoefficientsNotLoaded)
        /\ (data.placement = "malformed"
               /\ op' = "placement_score::calculate_placement_score") =>
              ret' = None
      ]_vars

\* In a build whose coefficients file is malformed, load_coefficients has
\* returned the parse error and COEFFICIENTS is still unset.
C28_Witness ==
    /\ data.coefficients = "malformed"
    /\ op = "load_coefficients"
    /\ ret = Err("Failed to parse coefficients JSON: " \o SerdeError)
    /\ COEFFICIENTS = None

\* The components of a time text of n parts, in the order they are read.
Components(n) ==
    CASE n = 1 -> <<"seconds format">>
      [] n = 2 -> <<"minutes", "seconds">>
      [] n = 3 -> <<"hours", "minutes", "seconds">>
      [] OTHER -> <<>>

\* C22: parse_time_to_seconds splits the trimmed text on ':'.  With one,
\* two or three parts that are all numbers it returns seconds,
\* minutes*60 + seconds or hours*3600 + minutes*60 + seconds; with a part
\* that is not a number it returns the error that names the first such
\* component and quotes it (the whole text when there is one part); with
\* four or more parts it returns the invalid-time-format error.  The
\* empty string is one part that is not a number.
C22_ParseTimeToSeconds ==
    op = "parse_time_to_seconds" =>
        LET text == trim(arg)
            parts == split(text, ":")
            n == Len(parts)
            number == [i \in 1 .. n |-> f64_from_str(parts[i])]
            bad == {i \in 1 .. n : number[i].tag = "Err"}
            first_bad == CHOOSE i \in bad : \A j \in bad : i <= j
        IN  /\ ret.tag \in {"Ok", "Err"}
            /\ n = 1 + Cardinality({i \in 1 .. Len(text) : text[i] = ":"})
            /\ arg = <<>> => ret.tag = "Err"
            /\ n >= 4 =>
                  ret = Err("Invalid time format: " \o Str(text)
                            \o ". Expected formats: ss.mmm, mm:ss.mmm, "
                            \o "or hh:mm:ss.mmm")
            /\ (n <= 3 /\ bad # {}) =>
                  ret = Err("Invalid " \o Components(n)[first_bad] \o ": "
                            \o Str(IF n = 1 THEN text ELSE parts[first_bad]))
            /\ (n = 1 /\ bad = {}) => ret = number[1]
            /\ (n = 2 /\ bad = {}) =>
                  ret = Ok(f64_add(f64_mul(number[1].val, 60),
                                   number[2].val))
            /\ (n = 3 /\ bad = {}) =>
                  ret = Ok(f64_add(f64_add(f64_mul(number[1].val, 3600),
                                           f64_mul(number[2].val, 60)),
                                   number[3].val))

\* The text 1:ab:cd of test_invalid_time_formats has been parsed: of its
\* two bad parts the error names the minutes.
C22_Witness ==
    /\ op = "parse_time_to_seconds"
    /\ arg = <<"1", ":", "a", "b", ":", "c", "d">>
    /\ ret = Err("Invalid minutes: ab")

\* The round trip of the call of seconds_to_time_string at hand succeeds
\* and returns a number less than 0.001 away from the seconds.
RoundTripWithinMillisecond ==
    LET back == parse_time_to_seconds(ret)
    IN  /\ back.tag = "Ok"
        /\ back.val.kind = "finite"
        /\ Abs(back.val.v - arg.v) < 10

\* C23 as stated: for every non-negative f64 of seconds the round trip
\* through seconds_to_time_string and parse_time_to_seconds succeeds and
\* returns a number less than 0.001 away from it.
C23_AsStated ==
    (op = "seconds_to_time_string" /\ f64_lt(Finite(-1), arg)) =>
        RoundTripWithinMillisecond

\* C23: for every finite non-negative number of seconds, below 3600 and
\* at or above it, the round trip succeeds and returns a number less than
\* 0.001 away from it.
C23_RoundTrip ==
    (op = "seconds_to_time_string" /\ arg.kind = "finite" /\ arg.v >= 0) =>
        RoundTripWithinMillisecond

\* 3599.9996 seconds, just below the hour, have been written in the
\* mm:ss.mmm form with the seconds rounded up to 60.000, which parses to
\* 3600.
C23_Witness ==
    /\ op = "seconds_to_time_string"
    /\ arg = Finite(35999996)
    /\ ret = <<"5", "9", ":", "6", "0", ".", "0", "0", "0">>
    /\ parse_time_to_seconds(ret) = Ok(Whole(3600))

\* The score of the submit at hand with wind_speed replaced by w.
SubmittedWithWind(w) ==
    calculate_world_athletics_score(
        [arg.val EXCEPT !.wind_speed = w], "calculate_result_score",
        "calculate_placement_score").ret

\* C29: the wind_speed signal of the form is present in every state, and
\* a submit for a wind-affected event passes a present wind_speed to the
\* score: an Ok total is the total at wind 0.0 plus the adjustment for the
\* signal's value, never the total with the no-wind-information penalty.
C29_WindAlwaysPresent ==
    /\ form.wind_speed # None
    /\ ( /\ op = "handle_submit"
         /\ arg # None
         /\ is_wind_affected_event(arg.val.event) ) =>
            /\ arg.val.wind_speed = form.wind_speed
            /\ ret.val.tag = "Ok" =>
                  /\ ret.val.val = SubmittedWithWind(Some(0)).val
                         + calculate_wind_adjustment(form.wind_speed)
                  /\ ret.val # SubmittedWithWind(None)

\* With the wind field last set to an empty or unparsable text (the
\* signal holds 0.0), a women's long jump of 10.50 has been submitted and
\* scored.
C29_Witness ==
    /\ op = "handle_submit"
    /\ arg # None
    /\ arg.val.event = EventOf("TrackAndField", "LJ")
    /\ arg.val.gender = "Women"
    /\ form.wind_speed = Some(0)
    /\ ret.val.tag = "Ok"
    /\ ret.val.val = SubmittedWithWind(None).val + 3000

\* C30: a submit while parse_error is set changes no signal and calls
\* nothing; a submit whose performance text does not parse for the
\* event's performance type sets parse_error to the message for that
\* type, changes no other signal (points and points_calculated among
\* them) and calls nothing.
C30_SubmitFrame ==
    [][ (op = "idle" /\ op' = "handle_submit") =>
            LET parsed == parse_performance(form.event,
                                            form.performance_input)
            IN  /\ form.parse_error # None =>
                      /\ form' = form
                      /\ arg' = None /\ ret' = None /\ calls' = <<>>
                /\ (form.parse_error = None /\ parsed.tag = "Err") =>
                      /\ form' = [form EXCEPT !.parse_error =
                                     Some(IF performance_type(form.event)
                                               = "Time"
                                              THEN TimeFormatError
                                              ELSE DistanceFormatError)]
                      /\ form'.points = form.points
                      /\ form'.points_calculated = form.points_calculated
                      /\ arg' = None /\ ret' = None /\ calls' = <<>>
      ]_vars

\* After a score of 10.50 was shown, the text 0:10.5 was typed and the
\* event changed to the long jump; the submit has set the distance
\* message without calling the score, and the old points still show.
C30_Witness ==
    /\ op = "handle_submit"
    /\ arg = None
    /\ calls = <<>>
    /\ form.event = EventOf("TrackAndField", "LJ")
    /\ form.performance_input = <<"0", ":", "1", "0", ".", "5">>
    /\ form.parse_error = Some(DistanceFormatError)
    /\ form.points_calculated
    /\ form.points # 0

\* C25, as stated: after a submit for which
\* calculate_world_athletics_score returned an error, the view shows that
\* error's message: it is the line under the performance field or the
\* text of the result panel.
C25_ErrorDisplayed ==
    (op = "handle_submit" /\ ret # None /\ ret.val.tag = "Err") =>
        ret.val.err \in {view(form).performance_message, view(form).result}

====
